---- MODULE Spec2Model ----
(***************************************************************************)
(* Model of the Home Assistant integration avanza_stock:                   *)
(*   const.py        the currency table and get_currency_config            *)
(*   config_flow.py  the configuration wizard AvanzaStockConfigFlow        *)
(*   websocket_api.py  the avanza_stock/search websocket command           *)
(***************************************************************************)
EXTENDS Integers, Sequences, FiniteSets, TLC

VARIABLES
    CURRENCY_MAP,          \* const.py module global, a dict (insertion ordered)
    REVERSE_CURRENCY_MAP,  \* const.py module global derived from CURRENCY_MAP
    calls,                 \* the get_currency_config calls made so far, with results
    flow,                  \* the flow instance the host drives (config or options flow)
    result,                \* the FlowResult the last handler returned to the host
    effects,               \* external calls the last handler invocation made
    last,                  \* the last call: step, input, environment, flow before it
    ws_tasks,              \* websocket_search_instruments invocations, in arrival order
    ws_sent                \* messages sent over the websocket connection, in order

vars ==
    <<CURRENCY_MAP, REVERSE_CURRENCY_MAP, calls, flow, result, effects, last,
      ws_tasks, ws_sent>>

wsvars == <<ws_tasks, ws_sent>>

(***************************************************************************)
(* Python values.  None is the empty tuple and a present optional value x  *)
(* is <<x>>, so that None never equals a value.  A dict is the sequence of *)
(* its items <<key, value>> in insertion order, keys unique.               *)
(***************************************************************************)
None == <<>>

Some(x) == <<x>>

DictHas(d, k) == \E i \in DOMAIN d : d[i][1] = k

DictGet(d, k) == d[CHOOSE i \in DOMAIN d : d[i][1] = k][2]

\* d[k] = v : an existing key keeps its position, a new key is appended
DictSet(d, k, v) ==
    IF DictHas(d, k)
    THEN [i \in DOMAIN d |-> IF d[i][1] = k THEN <<k, v>> ELSE d[i]]
    ELSE Append(d, <<k, v>>)

\* a dict display { k1: v1, k2: v2, ... } evaluated left to right
RECURSIVE DictFromItems(_)
DictFromItems(items) ==
    IF items = <<>> THEN <<>>
    ELSE LET n == Len(items)
         IN DictSet(DictFromItems(SubSeq(items, 1, n - 1)), items[n][1], items[n][2])

(***************************************************************************)
(* const.py: the currency table                                            *)
(***************************************************************************)
PairInfo(id, pair, invert) == Some([id |-> id, pair |-> pair, invert |-> invert])

\* a literal with the instruments of USD and EUR exchanged
CURRENCY_MAP_ITEMS_swapped ==
    << <<"SEK", None>>,
       <<"USD", PairInfo(18998, "USD/SEK", FALSE)>>,
       <<"EUR", PairInfo(19000, "EUR/SEK", FALSE)>>,
       <<"NOK", PairInfo(53822, "NOK/SEK", FALSE)>>,
       <<"DKK", PairInfo(53824, "DKK/SEK", FALSE)>>,
       <<"SEK/USD", PairInfo(18998, "USD/SEK", TRUE)>>,
       <<"SEK/EUR", PairInfo(19000, "EUR/SEK", TRUE)>>,
       <<"SEK/NOK", PairInfo(53822, "NOK/SEK", TRUE)>>,
       <<"SEK/DKK", PairInfo(53824, "DKK/SEK", TRUE)>> >>

\* a literal that gives USD the instrument of EUR in the inverse entry
CURRENCY_MAP_ITEMS_conflicting ==
    << <<"SEK", None>>,
       <<"USD", PairInfo(19000, "USD/SEK", FALSE)>>,
       <<"EUR", PairInfo(18998, "EUR/SEK", FALSE)>>,
       <<"NOK", PairInfo(53822, "NOK/SEK", FALSE)>>,
       <<"DKK", PairInfo(53824, "DKK/SEK", FALSE)>>,
       <<"SEK/USD", PairInfo(18998, "USD/SEK", TRUE)>>,
       <<"SEK/EUR", PairInfo(18998, "EUR/SEK", TRUE)>>,
       <<"SEK/NOK", PairInfo(53822, "NOK/SEK", TRUE)>>,
       <<"SEK/DKK", PairInfo(53824, "DKK/SEK", TRUE)>> >>

\* the dict display of CURRENCY_MAP, item by item as written
CURRENCY_MAP_ITEMS ==
    << <<"SEK", None>>,
       <<"USD", PairInfo(19000, "USD/SEK", FALSE)>>,
       <<"EUR", PairInfo(18998, "EUR/SEK", FALSE)>>,
       <<"NOK", PairInfo(53822, "NOK/SEK", FALSE)>>,
       <<"DKK", PairInfo(53824, "DKK/SEK", FALSE)>>,
       <<"SEK/USD", PairInfo(19000, "USD/SEK", TRUE)>>,
       <<"SEK/EUR", PairInfo(18998, "EUR/SEK", TRUE)>>,
       <<"SEK/NOK", PairInfo(53822, "NOK/SEK", TRUE)>>,
       <<"SEK/DKK", PairInfo(53824, "DKK/SEK", TRUE)>> >>

\* REVERSE_CURRENCY_MAP = {info["id"]: curr for curr, info in CURRENCY_MAP.items()
\*                         if info and "id" in info}; then [None] = "SEK".
\* Keys are optional ids: Some(id) for an instrument, None for the default.
RECURSIVE ReverseComprehension(_)
ReverseComprehension(d) ==
    IF d = <<>> THEN <<>>
    ELSE LET n    == Len(d)
             rest == ReverseComprehension(SubSeq(d, 1, n - 1))
             info == d[n][2]
         IN IF info # None
            THEN DictSet(rest, Some(info[1].id), d[n][1])
            ELSE rest

ReverseCurrencyMapOf(d) == DictSet(ReverseComprehension(d), None, "SEK")

(***************************************************************************)
(* const.py: get_currency_config                                           *)
(***************************************************************************)
\* what a call produces: a returned tuple (id, invert) or a raised exception
Return(id, invert) == [exc |-> "", id |-> id, invert |-> invert]

Raise(e) == [exc |-> e, id |-> None, invert |-> FALSE]

\* return info["id"], info["invert"]  (negate: 'not info["invert"]');
\* subscripting None raises TypeError
ReturnInfo(info, negate) ==
    IF info = None THEN Raise("TypeError")
    ELSE Return(Some(info[1].id), IF negate THEN ~info[1].invert ELSE info[1].invert)

\* f"{a}/{b}"
FormatPair(a, b) == a \o "/" \o b

\* isinstance(v, dict) over the table's values, which are None or a dict
IsDict(v) == v # None

\* the inverse branch returns the stored flag without negating it
get_currency_config_no_negation(base_currency, quote_currency) ==
    IF base_currency = quote_currency THEN Return(None, FALSE)
    ELSE IF DictHas(CURRENCY_MAP, FormatPair(base_currency, quote_currency))
    THEN ReturnInfo(DictGet(CURRENCY_MAP, FormatPair(base_currency, quote_currency)), FALSE)
    ELSE IF DictHas(CURRENCY_MAP, FormatPair(quote_currency, base_currency))
    THEN ReturnInfo(DictGet(CURRENCY_MAP, FormatPair(quote_currency, base_currency)), FALSE)
    ELSE IF DictHas(CURRENCY_MAP, base_currency) /\ IsDict(DictGet(CURRENCY_MAP, base_currency))
    THEN ReturnInfo(DictGet(CURRENCY_MAP, base_currency), FALSE)
    ELSE Return(None, FALSE)

\* the identity test is missing
get_currency_config_no_identity(base_currency, quote_currency) ==
    IF DictHas(CURRENCY_MAP, FormatPair(base_currency, quote_currency))
    THEN ReturnInfo(DictGet(CURRENCY_MAP, FormatPair(base_currency, quote_currency)), FALSE)
    ELSE IF DictHas(CURRENCY_MAP, FormatPair(quote_currency, base_currency))
    THEN ReturnInfo(DictGet(CURRENCY_MAP, FormatPair(quote_currency, base_currency)), TRUE)
    ELSE IF DictHas(CURRENCY_MAP, base_currency) /\ IsDict(DictGet(CURRENCY_MAP, base_currency))
    THEN ReturnInfo(DictGet(CURRENCY_MAP, base_currency), FALSE)
    ELSE Return(None, FALSE)

\* the single-code branch lacks the isinstance test
get_currency_config_no_isinstance(base_currency, quote_currency) ==
    IF base_currency = quote_currency THEN Return(None, FALSE)
    ELSE IF DictHas(CURRENCY_MAP, FormatPair(base_currency, quote_currency))
    THEN ReturnInfo(DictGet(CURRENCY_MAP, FormatPair(base_currency, quote_currency)), FALSE)
    ELSE IF DictHas(CURRENCY_MAP, FormatPair(quote_currency, base_currency))
    THEN ReturnInfo(DictGet(CURRENCY_MAP, FormatPair(quote_currency, base_currency)), TRUE)
    ELSE IF DictHas(CURRENCY_MAP, base_currency)
    THEN ReturnInfo(DictGet(CURRENCY_MAP, base_currency), FALSE)
    ELSE Return(None, FALSE)

\* the single-code branch is taken only when the target is SEK
get_currency_config_sek_only(base_currency, quote_currency) ==
    IF base_currency = quote_currency THEN Return(None, FALSE)
    ELSE IF DictHas(CURRENCY_MAP, FormatPair(base_currency, quote_currency))
    THEN ReturnInfo(DictGet(CURRENCY_MAP, FormatPair(base_currency, quote_currency)), FALSE)
    ELSE IF DictHas(CURRENCY_MAP, FormatPair(quote_currency, base_currency))
    THEN ReturnInfo(DictGet(CURRENCY_MAP, FormatPair(quote_currency, base_currency)), TRUE)
    ELSE IF /\ quote_currency = "SEK"
            /\ DictHas(CURRENCY_MAP, base_currency)
            /\ IsDict(DictGet(CURRENCY_MAP, base_currency))
    THEN ReturnInfo(DictGet(CURRENCY_MAP, base_currency), FALSE)
    ELSE Return(None, FALSE)

\* the direct branch negates the stored flag as the inverse branch does
get_currency_config_negate_direct(base_currency, quote_currency) ==
    IF base_currency = quote_currency THEN Return(None, FALSE)
    ELSE IF DictHas(CURRENCY_MAP, FormatPair(base_currency, quote_currency))
    THEN ReturnInfo(DictGet(CURRENCY_MAP, FormatPair(base_currency, quote_currency)), TRUE)
    ELSE IF DictHas(CURRENCY_MAP, FormatPair(quote_currency, base_currency))
    THEN ReturnInfo(DictGet(CURRENCY_MAP, FormatPair(quote_currency, base_currency)), TRUE)
    ELSE IF DictHas(CURRENCY_MAP, base_currency) /\ IsDict(DictGet(CURRENCY_MAP, base_currency))
    THEN ReturnInfo(DictGet(CURRENCY_MAP, base_currency), FALSE)
    ELSE Return(None, FALSE)

get_currency_config(base_currency, quote_currency) ==
    IF base_currency = quote_currency THEN Return(None, FALSE)
    \* Try direct pair
    ELSE IF DictHas(CURRENCY_MAP, FormatPair(base_currency, quote_currency))
    THEN ReturnInfo(DictGet(CURRENCY_MAP, FormatPair(base_currency, quote_currency)), FALSE)
    \* Try inverse pair
    ELSE IF DictHas(CURRENCY_MAP, FormatPair(quote_currency, base_currency))
    THEN ReturnInfo(DictGet(CURRENCY_MAP, FormatPair(quote_currency, base_currency)), TRUE)
    \* Try simple currency (assuming SEK as quote)
    ELSE IF DictHas(CURRENCY_MAP, base_currency) /\ IsDict(DictGet(CURRENCY_MAP, base_currency))
    THEN ReturnInfo(DictGet(CURRENCY_MAP, base_currency), FALSE)
    \* Default to no conversion
    ELSE Return(None, FALSE)

\* the default of the parameter quote_currency
quote_currency_default == "SEK"

\* currency codes callers pass: the reference currency, the listed ones, an
\* unlisted one, and a code that is itself a composite key of the table
Listed == {"USD", "EUR", "NOK", "DKK"}

Codes == {"SEK"} \cup Listed \cup {"JPY", "SEK/USD"}

\* bound on the number of calls recorded in the history
MaxCalls == 2

\* a call that memoises its answer in the table under the composite key
CallMemoising(base_currency, quote_arg) ==
    LET q == IF quote_arg = None THEN quote_currency_default ELSE quote_arg[1]
        r == get_currency_config(base_currency, q)
    IN /\ Len(calls) < MaxCalls
       /\ calls' = Append(calls, [base |-> base_currency, quote |-> quote_arg, ret |-> r])
       /\ CURRENCY_MAP' =
             IF r.id = None THEN CURRENCY_MAP
             ELSE DictSet(CURRENCY_MAP, FormatPair(base_currency, q),
                          PairInfo(r.id[1], FormatPair(base_currency, q), r.invert))
       /\ UNCHANGED <<REVERSE_CURRENCY_MAP, flow, result, effects, last, wsvars>>

\* one call get_currency_config(base) or get_currency_config(base, quote);
\* quote_arg is None when the caller omits the second argument
Call(base_currency, quote_arg) ==
    LET q == IF quote_arg = None THEN quote_currency_default ELSE quote_arg[1]
    IN /\ Len(calls) < MaxCalls
       /\ calls' = Append(calls, [base |-> base_currency, quote |-> quote_arg,
                                  ret |-> get_currency_config(base_currency, q)])
       /\ UNCHANGED <<CURRENCY_MAP, REVERSE_CURRENCY_MAP, flow, result, effects, last, wsvars>>

(***************************************************************************)
(* Python values used by the wizard.  A dict with string keys is a         *)
(* function on its keys.  A value that is a str or None (an id, a name, a  *)
(* date, a currency) is None or Some(s); ints and bools are plain.         *)
(***************************************************************************)
EmptyDict == [k \in {} |-> None]

\* d.get(k, default)
Get(d, k, default) == IF k \in DOMAIN d THEN d[k] ELSE default

\* d.update(u)
Update(d, u) == [k \in DOMAIN d \cup DOMAIN u |-> IF k \in DOMAIN u THEN u[k] ELSE d[k]]

Range(s) == {s[i] : i \in DOMAIN s}

DigitChar(d) ==
    CASE d = 0 -> "0" [] d = 1 -> "1" [] d = 2 -> "2" [] d = 3 -> "3" [] d = 4 -> "4"
      [] d = 5 -> "5" [] d = 6 -> "6" [] d = 7 -> "7" [] d = 8 -> "8" [] d = 9 -> "9"

\* str(n) of a non-negative int
RECURSIVE Str(_)
Str(n) == IF n < 10 THEN DigitChar(n) ELSE Str(n \div 10) \o DigitChar(n % 10)

(***************************************************************************)
(* const.py: configuration constants                                       *)
(***************************************************************************)
DOMAIN_NAME == "avanza_stock"

DEFAULT_NAME == "Avanza Stock GUI"

CONF_ID == "id"
CONF_NAME == "name"
CONF_CURRENCY == "currency"
CONF_MONITORED_CONDITIONS == "monitored_conditions"
CONF_STOCK == "stock"
CONF_SEARCH == "search"
CONF_INSTRUMENT_TYPE == "instrument_type"
CONF_SHARES == "shares"
CONF_PURCHASE_DATE == "purchase_date"
CONF_PURCHASE_PRICE == "purchase_price"
CONF_CONVERSION_CURRENCY == "conversion_currency"
CONF_INVERT_CONVERSION_CURRENCY == "invert_conversion_currency"
CONF_SHOW_TRENDING_ICON == "show_trending_icon"

INSTRUMENT_TYPES ==
    [stock |-> "Aktier", fund |-> "Fonder", index |-> "Index", bond |-> "Obligationer",
     certificate |-> "Certifikat", exchange_rate |-> "Valutor", all |-> "Alla"]

DEFAULT_SHOW_TRENDING_ICON == FALSE

MONITORED_CONDITIONS_KEYRATIOS == <<"directYield", "priceEarningsRatio", "volatility">>

MONITORED_CONDITIONS_LISTING == <<"tickerSymbol", "marketPlace", "flagCode">>

MONITORED_CONDITIONS_COMPANY ==
    <<"description", "marketCapital", "sector", "totalNumberOfShares">>

MONITORED_CONDITIONS_QUOTE ==
    <<"change", "changePercent", "totalValueTraded", "totalVolumeTraded">>

MONITORED_CONDITIONS_PRICE ==
    <<"priceAtStartOfYear", "priceFiveYearsAgo", "priceOneMonthAgo", "priceOneWeekAgo",
      "priceOneYearAgo", "priceThreeMonthsAgo", "priceThreeYearsAgo">>

\* the list after the five += at import time
MONITORED_CONDITIONS ==
    <<"country", "currency", "dividends", "hasInvestmentFees", "highestPrice", "id",
      "isin", "lastPrice", "lastPriceUpdated", "loanFactor", "lowestPrice", "marketList",
      "marketMakerExpected", "marketTrades", "morningStarFactSheetUrl", "name",
      "numberOfOwners", "orderDepthReceivedTime", "pushPermitted", "quoteUpdated",
      "shortSellable", "superLoan", "tradable">>
    \o MONITORED_CONDITIONS_KEYRATIOS \o MONITORED_CONDITIONS_LISTING
    \o MONITORED_CONDITIONS_COMPANY \o MONITORED_CONDITIONS_QUOTE
    \o MONITORED_CONDITIONS_PRICE

(***************************************************************************)
(* The host's side of a flow: results a step returns and form schemas      *)
(***************************************************************************)
\* a FlowResult, or an exception that left the handler
FlowResult(type) ==
    [type |-> type, step_id |-> "", menu_options |-> <<>>, data_schema |-> None,
     errors |-> {}, reason |-> "", title |-> "", data |-> None, exc |-> ""]

NoResult == FlowResult("none")

\* self.async_show_menu(step_id=..., menu_options=[...])
async_show_menu(step_id, menu_options) ==
    [FlowResult("menu") EXCEPT !.step_id = step_id, !.menu_options = menu_options]

\* self.async_show_form(step_id=..., data_schema=..., errors=...);
\* errors is the dict as its set of items
async_show_form(step_id, data_schema, errors) ==
    [FlowResult("form") EXCEPT !.step_id = step_id, !.data_schema = data_schema,
                               !.errors = errors]

\* self.async_create_entry(title=..., data=...)
async_create_entry(title, data) ==
    [FlowResult("create_entry") EXCEPT !.title = title, !.data = Some(data)]

\* self.async_abort(reason=...)
async_abort(reason) == [FlowResult("abort") EXCEPT !.reason = reason]

\* an exception propagates out of the handler
Raised(exc) == [FlowResult("raise") EXCEPT !.exc = exc]

\* one key of a vol.Schema: vol.Required / vol.Optional, its default (None
\* when the marker has none, else Some(value)) and its validator
Field(required, default, kind, choices) ==
    [required |-> required, default |-> default, kind |-> kind, choices |-> choices]

\* schema(user_input) as the host applies it before calling the handler:
\* missing keys whose marker has a default receive it
FillDefaults(schema, d) ==
    [k \in DOMAIN d \cup {k \in DOMAIN schema : schema[k].default # None} |->
        IF k \in DOMAIN d THEN d[k] ELSE schema[k].default[1]]

\* the submission validates: no extra keys, every required key present, and
\* every value (defaults included) accepted by its validator: cv.string
\* rejects None, vol.In accepts its choices only
Conforms(schema, d) ==
    LET filled == FillDefaults(schema, d)
    IN /\ DOMAIN d \subseteq DOMAIN schema
       /\ \A k \in DOMAIN schema : schema[k].required => k \in DOMAIN filled
       /\ \A k \in DOMAIN filled :
             /\ schema[k].kind \in {"string", "in"} => filled[k] # None
             /\ schema[k].kind = "in" => filled[k] \in schema[k].choices

(***************************************************************************)
(* config_flow.py: AvanzaStockConfigFlow                                   *)
(***************************************************************************)
\* what one handler invocation leaves: the instance, the value returned (or
\* the exception raised) and the external calls it made, in order
Out(f, r, e) == [flow |-> f, result |-> r, effects |-> e]

\* the effective constructor: the second definition of __init__ in the class
\* body replaces the first, so only _search_results is assigned
FlowInit ==
    [attrs |-> {"_search_results"},
     _search_results |-> <<>>,
     _found_configs |-> <<>>,
     _current_config_index |-> 0,
     _selected_instrument |-> None]

\* external calls, as recorded in effects
EffGet(id) == [call |-> "session.get", arg |-> id]
EffSearch(term) == [call |-> "pyavanza.search", arg |-> term]
EffCreateEntry(title) == [call |-> "async_create_entry", arg |-> title]

\* the awaited session.get raised instead of returning a response
Raises(get) == get \in {"ClientError", "Exception"}

\* the data schema of the configure form
ConfigureSchema(instrument_info) ==
    [name |-> Field(FALSE, Some(Get(instrument_info, CONF_NAME, None)), "string", {}),
     shares |-> Field(FALSE, Some(0), "float", {}),
     purchase_price |-> Field(FALSE, Some(0), "float", {}),
     purchase_date |-> Field(FALSE, Some(Some("")), "string", {}),
     currency |-> Field(FALSE, None, "string", {}),
     conversion_currency |-> Field(FALSE, None, "string", {}),
     invert_conversion_currency |-> Field(FALSE, Some(FALSE), "boolean", {}),
     monitored_conditions |->
        Field(FALSE, Some(MONITORED_CONDITIONS), "multi_select", Range(MONITORED_CONDITIONS)),
     show_trending_icon |-> Field(FALSE, Some(DEFAULT_SHOW_TRENDING_ICON), "boolean", {})]

\* f"{DEFAULT_NAME} {x}" where x is a str or None
DefaultTitle(x) == Some(DEFAULT_NAME \o " " \o (IF x = None THEN "None" ELSE x[1]))

\* the data of the entry async_step_configure creates
EntryData(title, instrument_info, user_input) ==
    [name |-> title,
     id |-> instrument_info[CONF_ID],
     shares |-> Get(user_input, CONF_SHARES, 0),
     purchase_price |-> Get(user_input, CONF_PURCHASE_PRICE, 0),
     purchase_date |-> Get(user_input, CONF_PURCHASE_DATE, Some("")),
     currency |-> Get(user_input, CONF_CURRENCY, None),
     conversion_currency |-> Get(user_input, CONF_CONVERSION_CURRENCY, None),
     invert_conversion_currency |-> Get(user_input, CONF_INVERT_CONVERSION_CURRENCY, FALSE),
     monitored_conditions |-> Get(user_input, CONF_MONITORED_CONDITIONS, MONITORED_CONDITIONS),
     show_trending_icon |-> Get(user_input, CONF_SHOW_TRENDING_ICON, DEFAULT_SHOW_TRENDING_ICON)]

\* the configure form is shown however the handler got here
ConfigureForm(instrument_info, errors) ==
    async_show_form("configure", Some(ConfigureSchema(instrument_info)), errors)

\* the merge the other way round: what the user submitted wins over
\* instrument_info
async_step_configure_user_wins(f, instrument_info, user_input, get) ==
    IF user_input # None
    THEN IF CONF_ID \notin DOMAIN instrument_info
         THEN Out(f, ConfigureForm(instrument_info, {<<"base", "unknown">>}), <<>>)
         ELSE IF get = "ClientError"
         THEN Out(f, ConfigureForm(instrument_info, {<<"base", "cannot_connect">>}),
                  <<EffGet(instrument_info[CONF_ID])>>)
         ELSE IF Raises(get)
         THEN Out(f, ConfigureForm(instrument_info, {<<"base", "unknown">>}),
                  <<EffGet(instrument_info[CONF_ID])>>)
         ELSE LET merged == Update(instrument_info, user_input[1])
                  title  == Get(merged, CONF_NAME, DefaultTitle(instrument_info[CONF_ID]))
              IN Out(f, async_create_entry(title, EntryData(title, instrument_info, merged)),
                     <<EffGet(instrument_info[CONF_ID]), EffCreateEntry(title)>>)
    ELSE Out(f, ConfigureForm(instrument_info, {}), <<>>)

\* async_step_configure(self, instrument_info, user_input=None); user_input is
\* None or Some(dict); get is the outcome of the validating session.get:
\* a response ("ok", "404") or an exception ("ClientError", "Exception"); the
\* response is not looked at.  The statements after the form's
\* return are unreachable.
async_step_configure(f, instrument_info, user_input, get) ==
    IF user_input # None
    THEN IF CONF_ID \notin DOMAIN instrument_info
         \* instrument_info[CONF_ID] raises KeyError inside the try
         THEN Out(f, ConfigureForm(instrument_info, {<<"base", "unknown">>}), <<>>)
         ELSE IF get = "ClientError"
         THEN Out(f, ConfigureForm(instrument_info, {<<"base", "cannot_connect">>}),
                  <<EffGet(instrument_info[CONF_ID])>>)
         ELSE IF Raises(get)
         THEN Out(f, ConfigureForm(instrument_info, {<<"base", "unknown">>}),
                  <<EffGet(instrument_info[CONF_ID])>>)
         ELSE LET merged == Update(user_input[1], instrument_info)
                  title  == Get(merged, CONF_NAME, DefaultTitle(instrument_info[CONF_ID]))
              IN Out(f, async_create_entry(title, EntryData(title, instrument_info, merged)),
                     <<EffGet(instrument_info[CONF_ID]), EffCreateEntry(title)>>)
    ELSE Out(f, ConfigureForm(instrument_info, {}), <<>>)

\* the data schema of the manual_entry form
ManualEntrySchema ==
    [id |-> Field(TRUE, None, "string", {}),
     name |-> Field(FALSE, None, "string", {})]

\* an exception caught by "except aiohttp.ClientError" / "except Exception"
CatchError(exc, other) == IF exc = "ClientError" THEN "cannot_connect" ELSE other

\* async_step_manual_entry(self, user_input=None)
async_step_manual_entry(f, user_input, get) ==
    LET form(errors) == async_show_form("manual_entry", Some(ManualEntrySchema), errors)
    IN IF user_input = None THEN Out(f, form({}), <<>>)
       ELSE IF CONF_ID \notin DOMAIN user_input[1]
       \* user_input[CONF_ID] raises KeyError inside the try
       THEN Out(f, form({<<"base", "invalid_stock_id">>}), <<>>)
       ELSE IF Raises(get)
       THEN Out(f, form({<<"base", CatchError(get, "invalid_stock_id")>>}),
                <<EffGet(user_input[1][CONF_ID])>>)
       ELSE LET o == async_step_configure(f, user_input[1], None, "ok")
                e == <<EffGet(user_input[1][CONF_ID])>> \o o.effects
            IN IF o.result.type = "raise"
               \* the nested call is inside the try as well
               THEN Out(o.flow, form({<<"base", CatchError(o.result.exc, "invalid_stock_id")>>}), e)
               ELSE Out(o.flow, o.result, e)

\* async_step_user(self, user_input=None)
async_step_user(f, user_input) ==
    Out(f, async_show_menu("user", <<"migrate_yaml", "search_instrument", "manual_entry">>), <<>>)

\* an import that configures the record it is given
async_step_import_configures(f, user_input) ==
    async_step_configure(f, user_input[1], Some(EmptyDict), "ok")

\* async_step_import(self, user_input)
async_step_import(f, user_input) == async_step_user(f, user_input)

\* str(x) of a value that is a str already
StrOfStr(x) == x

\* next((item for item in items if str(item["id"]) == id), None)
FirstMatch(items, id) ==
    IF \E i \in DOMAIN items : StrOfStr(items[i][CONF_ID]) = id
    THEN Some(items[CHOOSE i \in DOMAIN items :
                    /\ StrOfStr(items[i][CONF_ID]) = id
                    /\ \A j \in 1..(i - 1) : StrOfStr(items[j][CONF_ID]) # id])
    ELSE None

\* the keys of {str(item["id"]): f"{item['name']} ({item['currency']})" ...}
InstrumentChoices(items) == {StrOfStr(items[i][CONF_ID]) : i \in DOMAIN items}

\* the data schema of the search_instrument form
SearchSchema(items) ==
    [instrument_type |->
        Field(TRUE, Some(Some("all")), "in", {Some(k) : k \in DOMAIN INSTRUMENT_TYPES}),
     id |-> IF items # <<>>
            THEN Field(TRUE, None, "in", InstrumentChoices(items))
            ELSE Field(TRUE, None, "string", {})]

\* the tail of async_step_search_instrument: the form over _search_results;
\* item['currency'] raises KeyError for an item without a currency
SearchForm(f, errors, e) ==
    IF \E i \in DOMAIN f._search_results : CONF_CURRENCY \notin DOMAIN f._search_results[i]
    THEN Out(f, Raised("KeyError"), e)
    ELSE Out(f, async_show_form("search_instrument", Some(SearchSchema(f._search_results)),
                                errors), e)

\* async_step_search_instrument(self, user_input=None); search is the outcome
\* of pyavanza.search: [exc |-> "" | "ClientError" | "Exception", results |-> list]
async_step_search_instrument(f, user_input, search) ==
    IF user_input = None THEN SearchForm(f, {}, <<>>)
    ELSE IF CONF_ID \in DOMAIN user_input[1]
    THEN \* User selected an instrument
         LET selected == FirstMatch(f._search_results, user_input[1][CONF_ID])
             f1 == [f EXCEPT !._selected_instrument = selected,
                             !.attrs = @ \cup {"_selected_instrument"}]
         IN IF selected # None
            THEN async_step_configure(f1,
                     [id |-> selected[1][CONF_ID], name |-> selected[1][CONF_NAME]], None, "ok")
            ELSE SearchForm(f1, {}, <<>>)
    ELSE \* User entered a search term
         IF CONF_SEARCH \notin DOMAIN user_input[1]
         \* user_input[CONF_SEARCH] raises KeyError inside the try
         THEN SearchForm(f, {<<"base", "unknown">>}, <<>>)
         ELSE IF search.exc # ""
         THEN SearchForm(f, {<<"base", CatchError(search.exc, "unknown")>>},
                         <<EffSearch(user_input[1][CONF_SEARCH])>>)
         ELSE SearchForm([f EXCEPT !._search_results = search.results], {},
                         <<EffSearch(user_input[1][CONF_SEARCH])>>)

\* async_step_select_instrument(self, user_input=None)
async_step_select_instrument(f, user_input) ==
    LET selected == IF user_input = None \/ CONF_ID \notin DOMAIN user_input[1] THEN None
                    ELSE FirstMatch(f._search_results, user_input[1][CONF_ID])
        form == async_show_form("select_instrument",
                    Some([id |-> Field(TRUE, None, "in", InstrumentChoices(f._search_results))]),
                    {})
    IN IF user_input # None /\ CONF_ID \notin DOMAIN user_input[1] /\ f._search_results # <<>>
       \* user_input[CONF_ID] is evaluated for the first item
       THEN Out(f, Raised("KeyError"), <<>>)
       ELSE IF selected # None
       THEN async_step_configure(f,
                [id |-> selected[1][CONF_ID], name |-> selected[1][CONF_NAME]], None, "ok")
       ELSE IF \E i \in DOMAIN f._search_results :
                  CONF_CURRENCY \notin DOMAIN f._search_results[i]
       THEN Out(f, Raised("KeyError"), <<>>)
       ELSE Out(f, form, <<>>)

\* the data schema of the confirm_migration form
ConfirmSchema(configs) ==
    [action |-> Field(TRUE, None, "in", {Some("confirm"), Some("modify"), Some("add_more")}),
     config_index |-> Field(FALSE, None, "in", {Some(Str(i - 1)) : i \in DOMAIN configs})]

\* the tail of async_step_confirm_migration: the form listing _found_configs
ConfirmForm(f, e) ==
    IF "_found_configs" \notin f.attrs THEN Out(f, Raised("AttributeError"), e)
    ELSE IF \E i \in DOMAIN f._found_configs : CONF_ID \notin DOMAIN f._found_configs[i]
    THEN Out(f, Raised("KeyError"), e)
    ELSE Out(f, async_show_form("confirm_migration", Some(ConfirmSchema(f._found_configs)), {}), e)

\* for config in self._found_configs: await self.async_step_configure(config)
\* the value each call returns is dropped; an exception ends the loop
RECURSIVE ConfigureEach(_, _)
ConfigureEach(f, configs) ==
    IF configs = <<>> THEN Out(f, NoResult, <<>>)
    ELSE LET o == async_step_configure(f, Head(configs), None, "ok")
         IN IF o.result.type = "raise" THEN o
            ELSE LET rest == ConfigureEach(o.flow, Tail(configs))
                 IN Out(rest.flow, rest.result, o.effects \o rest.effects)

\* int(x) of a str: the number it spells, or ValueError
IsIntLiteral(s) == \E n \in 0..99 : Str(n) = s

ParseInt(s) == CHOOSE n \in 0..99 : Str(n) = s

\* the data schema of the modify_config form
ModifySchema(config) ==
    [name |-> Field(TRUE, Some(Get(config, CONF_NAME, None)), "string", {}),
     shares |-> Field(FALSE, Some(Get(config, CONF_SHARES, 0)), "float", {}),
     purchase_price |-> Field(FALSE, Some(Get(config, CONF_PURCHASE_PRICE, 0)), "float", {}),
     purchase_date |-> Field(FALSE, Some(Get(config, CONF_PURCHASE_DATE, Some(""))), "string", {}),
     currency |-> Field(FALSE, Some(Get(config, CONF_CURRENCY, None)), "string", {}),
     conversion_currency |->
        Field(FALSE, Some(Get(config, CONF_CONVERSION_CURRENCY, None)), "string", {}),
     invert_conversion_currency |->
        Field(FALSE, Some(Get(config, CONF_INVERT_CONVERSION_CURRENCY, FALSE)), "boolean", {}),
     monitored_conditions |->
        Field(FALSE, Some(Get(config, CONF_MONITORED_CONDITIONS, MONITORED_CONDITIONS)),
              "multi_select", Range(MONITORED_CONDITIONS)),
     show_trending_icon |->
        Field(FALSE, Some(Get(config, CONF_SHOW_TRENDING_ICON, DEFAULT_SHOW_TRENDING_ICON)),
              "boolean", {})]

\* seq[i] with Python's indexing: the 1-based position, or 0 for IndexError
PyIndex(seq, i) ==
    IF 0 <= i /\ i < Len(seq) THEN i + 1
    ELSE IF i < 0 /\ -i <= Len(seq) THEN Len(seq) + i + 1
    ELSE 0

\* the update always lands in the first record
async_step_modify_config_first(f, user_input) ==
    IF "_found_configs" \notin f.attrs \/ "_current_config_index" \notin f.attrs
    THEN Out(f, Raised("AttributeError"), <<>>)
    ELSE LET at == PyIndex(f._found_configs, f._current_config_index)
         IN IF at = 0 THEN Out(f, Raised("IndexError"), <<>>)
            ELSE IF user_input # None
            THEN ConfirmForm([f EXCEPT !._found_configs[1] = Update(@, user_input[1])], <<>>)
            ELSE Out(f, async_show_form("modify_config",
                                        Some(ModifySchema(f._found_configs[at])), {}), <<>>)

\* async_step_modify_config and async_step_confirm_migration call each other:
\* modify_config(user_input) returns confirm_migration(), which with no
\* user_input only shows its form
async_step_modify_config(f, user_input) ==
    IF "_found_configs" \notin f.attrs \/ "_current_config_index" \notin f.attrs
    THEN Out(f, Raised("AttributeError"), <<>>)
    ELSE LET at == PyIndex(f._found_configs, f._current_config_index)
         IN IF at = 0 THEN Out(f, Raised("IndexError"), <<>>)
            ELSE IF user_input # None
            THEN \* Update the configuration with new values
                 ConfirmForm([f EXCEPT !._found_configs[at] = Update(@, user_input[1])], <<>>)
            ELSE Out(f, async_show_form("modify_config",
                                        Some(ModifySchema(f._found_configs[at])), {}), <<>>)

\* "modify" calls the modify step without assigning _current_config_index
async_step_confirm_migration_index_unassigned(f, user_input) ==
    LET action == IF user_input = None THEN None ELSE Get(user_input[1], "action", None)
    IN IF action = Some("confirm")
       THEN IF "_found_configs" \notin f.attrs THEN Out(f, Raised("AttributeError"), <<>>)
            ELSE LET o == ConfigureEach(f, f._found_configs)
                 IN IF o.result.type = "raise" THEN o
                    ELSE Out([o.flow EXCEPT !._found_configs = <<>>],
                             async_show_menu("user", <<"search_instrument", "manual_entry">>),
                             o.effects)
       ELSE IF action = Some("modify")
       THEN async_step_modify_config(f, None)
       ELSE IF action = Some("add_more")
       THEN async_step_search_instrument(f, None, [exc |-> "", results |-> <<>>])
       ELSE ConfirmForm(f, <<>>)

\* async_step_confirm_migration(self, user_input=None)
async_step_confirm_migration(f, user_input) ==
    LET action == IF user_input = None THEN None ELSE Get(user_input[1], "action", None)
    IN IF action = Some("confirm")
       THEN IF "_found_configs" \notin f.attrs THEN Out(f, Raised("AttributeError"), <<>>)
            ELSE LET o == ConfigureEach(f, f._found_configs)
                 IN IF o.result.type = "raise" THEN o
                    ELSE Out([o.flow EXCEPT !._found_configs = <<>>],
                             async_show_menu("user", <<"search_instrument", "manual_entry">>),
                             o.effects)
       ELSE IF action = Some("modify")
       THEN IF "config_index" \in DOMAIN user_input[1]
               /\ ~IsIntLiteral(user_input[1]["config_index"][1])
            THEN Out(f, Raised("ValueError"), <<>>)
            ELSE async_step_modify_config(
                    [f EXCEPT !._current_config_index =
                                  IF "config_index" \in DOMAIN user_input[1]
                                  THEN ParseInt(user_input[1]["config_index"][1])
                                  ELSE 0,
                              !.attrs = @ \cup {"_current_config_index"}],
                    None)
       ELSE IF action = Some("add_more")
       THEN async_step_search_instrument(f, None, [exc |-> "", results |-> <<>>])
       ELSE ConfirmForm(f, <<>>)

(***************************************************************************)
(* async_step_migrate_yaml.  The files it reads are its input: scan is     *)
(*   [main_exists, main_load, main, includes_exists, includes]             *)
(* where a load is "ok", "YAMLError" or "Exception", a loaded file is      *)
(* [has_sensor, sensors], includes lists [ext, load, config] per file, a   *)
(* sensor is [dict |-> entry] or [other |-> text], and the value of an     *)
(* entry's "stock" is [int |-> n], [list |-> items] or [other |-> text].   *)
(***************************************************************************)
IsDictValue(v) == "dict" \in DOMAIN v

\* every dict sensor counts, whatever its platform
AvanzaSensors_any_platform(config) ==
    IF config.has_sensor
    THEN SelectSeq(config.sensors, LAMBDA s : IsDictValue(s))
    ELSE <<>>

\* the sensors of one loaded file that are dicts with platform avanza_stock
AvanzaSensors(config) ==
    IF config.has_sensor
    THEN SelectSeq(config.sensors,
                   LAMBDA s : IsDictValue(s) /\ Get(s.dict, "platform", None) = Some(DOMAIN_NAME))
    ELSE <<>>

\* the loop over os.listdir(includes_dir): [exc, entries]
RECURSIVE ScanIncludes(_)
ScanIncludes(files) ==
    IF files = <<>> THEN [exc |-> "", entries |-> <<>>]
    ELSE LET file == Head(files)
             rest == ScanIncludes(Tail(files))
         IN IF file.ext # ".yaml" \/ file.load = "YAMLError" THEN rest
            ELSE IF file.load # "ok" THEN [exc |-> file.load, entries |-> <<>>]
            ELSE [exc |-> rest.exc, entries |-> AvanzaSensors(file.config) \o rest.entries]

\* existing_entries, or the exception that ended the scan
ScanFiles(scan) ==
    IF scan.main_exists /\ scan.main_load # "ok"
    THEN [exc |-> scan.main_load, entries |-> <<>>]
    ELSE LET main == IF scan.main_exists THEN AvanzaSensors(scan.main) ELSE <<>>
             inc  == IF scan.includes_exists THEN ScanIncludes(scan.includes)
                     ELSE [exc |-> "", entries |-> <<>>]
         IN [exc |-> inc.exc, entries |-> main \o inc.entries]

\* the record of a single stock configuration (stock: <int>)
ConfigFromInt(entry, n) ==
    [id |-> Some(Str(n)),
     name |-> Get(entry, "name", DefaultTitle(Some(Str(n)))),
     shares |-> Get(entry, "shares", 0),
     purchase_date |-> Get(entry, "purchase_date", Some("")),
     purchase_price |-> Get(entry, "purchase_price", 0),
     currency |-> Get(entry, "currency", None),
     conversion_currency |-> Get(entry, "conversion_currency", None),
     invert_conversion_currency |-> Get(entry, "invert_conversion_currency", FALSE),
     monitored_conditions |-> Get(entry, "monitored_conditions", MONITORED_CONDITIONS),
     show_trending_icon |-> Get(entry, "show_trending_icon", DEFAULT_SHOW_TRENDING_ICON)]

\* the record of one element of a multiple stocks configuration
ConfigFromItem(entry, stock) ==
    [id |-> Some(Str(stock["id"])),
     name |-> Get(stock, "name", DefaultTitle(Some(Str(stock["id"])))),
     shares |-> Get(stock, "shares", 0),
     purchase_date |-> Get(stock, "purchase_date", Some("")),
     purchase_price |-> Get(stock, "purchase_price", 0),
     currency |-> Get(stock, "currency", None),
     conversion_currency |-> Get(stock, "conversion_currency", None),
     invert_conversion_currency |-> Get(stock, "invert_conversion_currency", FALSE),
     monitored_conditions |-> Get(entry, "monitored_conditions", MONITORED_CONDITIONS),
     show_trending_icon |-> Get(entry, "show_trending_icon", DEFAULT_SHOW_TRENDING_ICON)]

\* for stock in stock_config: records appended to configs until an element
\* without "id" raises KeyError
RECURSIVE ConfigsFromList(_, _, _)
ConfigsFromList(entry, items, configs) ==
    IF items = <<>> THEN [exc |-> "", configs |-> configs]
    ELSE IF ~IsDictValue(Head(items)) THEN ConfigsFromList(entry, Tail(items), configs)
    ELSE IF "id" \notin DOMAIN Head(items).dict THEN [exc |-> "KeyError", configs |-> configs]
    ELSE ConfigsFromList(entry, Tail(items),
                         Append(configs, ConfigFromItem(entry, Head(items).dict)))

\* for entry in existing_entries: self._found_configs as the loop leaves it
RECURSIVE BuildConfigs(_, _)
BuildConfigs(entries, configs) ==
    IF entries = <<>> THEN [exc |-> "", configs |-> configs]
    ELSE LET entry == Head(entries).dict
         IN IF CONF_STOCK \notin DOMAIN entry THEN BuildConfigs(Tail(entries), configs)
            ELSE IF "int" \in DOMAIN entry[CONF_STOCK]
            THEN BuildConfigs(Tail(entries),
                              Append(configs, ConfigFromInt(entry, entry[CONF_STOCK].int)))
            ELSE IF "list" \in DOMAIN entry[CONF_STOCK]
            THEN LET r == ConfigsFromList(entry, entry[CONF_STOCK].list, configs)
                 IN IF r.exc # "" THEN r ELSE BuildConfigs(Tail(entries), r.configs)
            ELSE BuildConfigs(Tail(entries), configs)

\* the form shown when the try block raised
MigrationErrorForm == async_show_form("migrate_yaml", None, {<<"base", "migration_error">>})

\* without the broad except: an exception of the record construction leaves
\* the step
async_step_migrate_yaml_no_catch(f, user_input, scan) ==
    LET found == ScanFiles(scan)
    IN IF found.exc # "" THEN Out(f, MigrationErrorForm, <<>>)
       ELSE IF found.entries = <<>> THEN Out(f, async_abort("no_existing_config"), <<>>)
       ELSE LET built == BuildConfigs(found.entries, <<>>)
                f1 == [f EXCEPT !._found_configs = built.configs,
                                !.attrs = @ \cup {"_found_configs"}]
            IN IF built.exc # "" THEN Out(f1, Raised(built.exc), <<>>)
               ELSE async_step_confirm_migration(f1, None)

\* async_step_migrate_yaml(self, user_input=None)
async_step_migrate_yaml(f, user_input, scan) ==
    LET found == ScanFiles(scan)
    IN IF found.exc # "" THEN Out(f, MigrationErrorForm, <<>>)
       ELSE IF found.entries = <<>> THEN Out(f, async_abort("no_existing_config"), <<>>)
       ELSE LET built == BuildConfigs(found.entries, <<>>)
                f1 == [f EXCEPT !._found_configs = built.configs,
                                !.attrs = @ \cup {"_found_configs"}]
            IN IF built.exc # "" THEN Out(f1, MigrationErrorForm, <<>>)
               ELSE LET o == async_step_confirm_migration(f1, None)
                    IN IF o.result.type = "raise"
                       THEN Out(o.flow, MigrationErrorForm, o.effects)
                       ELSE o

(***************************************************************************)
(* The host (Home Assistant's flow manager) driving one flow: it starts    *)
(* the flow at step user, calls the step a menu option names with no       *)
(* input, and calls the step a form's step_id names with the submission    *)
(* as the single argument, after validating it against the form's schema.  *)
(***************************************************************************)
\* the environment of one handler invocation: outcomes of its external calls
Env(get, search, scan) == [get |-> get, search |-> search, scan |-> scan]

\* session.get(url) returns a response, whatever its HTTP status (the session
\* is not created with raise_for_status), or raises
GetOutcomes == {"ok", "404", "ClientError", "Exception"}

Item(id, name) == [id |-> Some(id), name |-> Some(name)]

ItemWithCurrency(id, name, currency) ==
    [id |-> Some(id), name |-> Some(name), currency |-> Some(currency)]

NoSearch == [exc |-> "", results |-> <<>>]

SearchOutcomes ==
    { NoSearch,
      [exc |-> "", results |-> <<ItemWithCurrency("5361", "Volvo B", "SEK")>>],
      [exc |-> "", results |-> <<ItemWithCurrency("5361", "Volvo B", "SEK"),
                                 ItemWithCurrency("1983", "Ericsson B", "SEK")>>],
      [exc |-> "", results |-> <<Item("5361", "Volvo B")>>],
      [exc |-> "ClientError", results |-> <<>>],
      [exc |-> "Exception", results |-> <<>>] }

Sensor(entry) == [dict |-> entry]

Avanza == [platform |-> Some(DOMAIN_NAME)]

LoadedFile(sensors) == [has_sensor |-> TRUE, sensors |-> sensors]

NoSensorKey == [has_sensor |-> FALSE, sensors |-> <<>>]

Include(ext, load, config) == [ext |-> ext, load |-> load, config |-> config]

ScanOf(main_exists, main_load, main, includes_exists, includes) ==
    [main_exists |-> main_exists, main_load |-> main_load, main |-> main,
     includes_exists |-> includes_exists, includes |-> includes]

E_int == Sensor(Update(Avanza, [stock |-> [int |-> 5361]]))

E_int_named ==
    Sensor(Update(Avanza, [stock |-> [int |-> 5361], name |-> Some("Volvo B"), shares |-> 10]))

E_list ==
    Sensor(Update(Avanza,
        [stock |-> [list |-> << [dict |-> [id |-> 1983, name |-> Some("Ericsson B")]],
                                [other |-> "junk"],
                                [dict |-> [id |-> 52, shares |-> 3]] >>]]))

E_list_noid ==
    Sensor(Update(Avanza,
        [stock |-> [list |-> << [dict |-> [id |-> 1983]],
                                [dict |-> [name |-> Some("nameless")]] >>]]))

E_nostock == Sensor(Avanza)

E_textstock == Sensor(Update(Avanza, [stock |-> [other |-> "5361"]]))

E_template == Sensor([platform |-> Some("template")])

E_nondict == [other |-> "!include sensors.yaml"]

NoScan == ScanOf(FALSE, "ok", NoSensorKey, FALSE, <<>>)

\* the configurations the scan may meet
Scans ==
    { NoScan,
      ScanOf(TRUE, "ok", NoSensorKey, FALSE, <<>>),
      ScanOf(TRUE, "ok", LoadedFile(<<E_template, E_nondict>>), TRUE, <<>>),
      ScanOf(TRUE, "ok", LoadedFile(<<E_template, E_int_named>>), FALSE, <<>>),
      ScanOf(TRUE, "ok", LoadedFile(<<E_int>>), TRUE,
             <<Include(".yaml", "ok", LoadedFile(<<E_list>>))>>),
      ScanOf(TRUE, "ok", LoadedFile(<<E_nostock, E_textstock>>), FALSE, <<>>),
      ScanOf(TRUE, "Exception", NoSensorKey, FALSE, <<>>),
      ScanOf(TRUE, "YAMLError", NoSensorKey, FALSE, <<>>),
      ScanOf(FALSE, "ok", NoSensorKey, TRUE,
             <<Include(".yaml", "YAMLError", NoSensorKey),
               Include(".txt", "ok", LoadedFile(<<E_int>>)),
               Include(".yaml", "ok", LoadedFile(<<E_int_named>>))>>),
      ScanOf(FALSE, "ok", NoSensorKey, TRUE,
             <<Include(".yaml", "ok", LoadedFile(<<E_int>>)),
               Include(".yaml", "Exception", NoSensorKey)>>),
      ScanOf(TRUE, "ok", LoadedFile(<<E_list_noid>>), FALSE, <<>>) }

\* what a user may send; the host passes on only what validates against the
\* schema of the form shown
UserInputs ==
    { EmptyDict,
      [id |-> Some("5361")],
      [id |-> Some("5361"), name |-> Some("Volvo B")],
      [id |-> Some("1983"), instrument_type |-> Some("stock")],
      [id |-> Some("5361"), instrument_type |-> Some("bogus")],
      [instrument_type |-> Some("stock")],
      [search |-> Some("volvo")],
      [search |-> Some("volvo"), instrument_type |-> Some("stock")],
      [name |-> Some("Volvo B")],
      [name |-> Some("Renamed"), shares |-> 2, currency |-> Some("SEK")],
      [currency |-> Some("USD"), conversion_currency |-> Some("SEK")],
      [name |-> Some("Renamed"), shares |-> 2, currency |-> Some("USD"),
       conversion_currency |-> Some("SEK")],
      [shares |-> 2],
      [action |-> Some("confirm")],
      [action |-> Some("modify")],
      [action |-> Some("modify"), config_index |-> Some("0")],
      [action |-> Some("modify"), config_index |-> Some("1")],
      [action |-> Some("modify"), config_index |-> Some("7")],
      [action |-> Some("add_more")],
      [action |-> Some("bogus")] }

\* data_schema(user_input), when the form has a schema; a form without one
\* has no fields to submit
Validates(form, d) ==
    IF form.data_schema = None THEN d = EmptyDict ELSE Conforms(form.data_schema[1], d)

Validated(form, d) ==
    IF form.data_schema = None THEN d ELSE FillDefaults(form.data_schema[1], d)

\* the host takes over what the handler left
Handled(o, step, input, env) ==
    /\ flow' = o.flow
    /\ result' = o.result
    /\ effects' = o.effects
    /\ last' = [step |-> step, input |-> input, env |-> env, before |-> flow]
    /\ UNCHANGED <<CURRENCY_MAP, REVERSE_CURRENCY_MAP, calls, wsvars>>

NoEnv == Env("ok", NoSearch, NoScan)

\* the flow is started by the user: the host calls async_step_user()
Start ==
    /\ result.type = "none"
    /\ Handled(async_step_user(flow, None), "user", None, NoEnv)

\* a menu is shown and the user picks migrate_yaml
MenuMigrateYaml(scan) ==
    /\ result.type = "menu"
    /\ "migrate_yaml" \in Range(result.menu_options)
    /\ Handled(async_step_migrate_yaml(flow, None, scan), "migrate_yaml", None,
               Env("ok", NoSearch, scan))

MenuSearchInstrument ==
    /\ result.type = "menu"
    /\ "search_instrument" \in Range(result.menu_options)
    /\ Handled(async_step_search_instrument(flow, None, NoSearch), "search_instrument",
               None, NoEnv)

MenuManualEntry ==
    /\ result.type = "menu"
    /\ "manual_entry" \in Range(result.menu_options)
    /\ Handled(async_step_manual_entry(flow, None, "ok"), "manual_entry", None, NoEnv)

\* a form is shown and the user submits it
Submits(step, d) ==
    /\ result.type = "form"
    /\ result.step_id = step
    /\ Validates(result, d)

SubmitMigrateYaml(d, scan) ==
    /\ Submits("migrate_yaml", d)
    /\ Handled(async_step_migrate_yaml(flow, Some(Validated(result, d)), scan),
               "migrate_yaml", Some(Validated(result, d)), Env("ok", NoSearch, scan))

SubmitConfirmMigration(d) ==
    /\ Submits("confirm_migration", d)
    /\ Handled(async_step_confirm_migration(flow, Some(Validated(result, d))),
               "confirm_migration", Some(Validated(result, d)), NoEnv)

SubmitModifyConfig(d) ==
    /\ Submits("modify_config", d)
    /\ Handled(async_step_modify_config(flow, Some(Validated(result, d))),
               "modify_config", Some(Validated(result, d)), NoEnv)

SubmitSearchInstrument(d, search) ==
    /\ Submits("search_instrument", d)
    /\ Handled(async_step_search_instrument(flow, Some(Validated(result, d)), search),
               "search_instrument", Some(Validated(result, d)), Env("ok", search, NoScan))

SubmitManualEntry(d, get) ==
    /\ Submits("manual_entry", d)
    /\ Handled(async_step_manual_entry(flow, Some(Validated(result, d)), get),
               "manual_entry", Some(Validated(result, d)), Env(get, NoSearch, NoScan))

\* the submission is the single argument, so it is bound to instrument_info
\* and user_input keeps its default None
SubmitConfigure(d, get) ==
    /\ Submits("configure", d)
    /\ Handled(async_step_configure(flow, Validated(result, d), None, get),
               "configure", Some(Validated(result, d)), Env(get, NoSearch, NoScan))

(***************************************************************************)
(* websocket_api.py: the avanza_stock/search command.  The host validates  *)
(* a message against the command schema (which fills instrument_type with  *)
(* "all"), requires message ids to increase on a connection, and runs the  *)
(* handler as a task; the handler suspends at the await of the search.     *)
(***************************************************************************)
\* bound on the message ids of one connection
MaxMsgId == 2

InstrumentTypeArgs == {"stock", "bogus"}

\* what pyavanza.search(...) may do: return a list of items, or raise
WsSearchOutcomes ==
    { NoSearch,
      [exc |-> "", results |-> <<ItemWithCurrency("5361", "Volvo B", "SEK"),
                                 Item("1983", "Ericsson B")>>],
      [exc |-> "ClientError", results |-> <<>>],
      [exc |-> "Exception", results |-> <<>>] }

\* a message that passed the command schema
WsMessage(id, search_term, instrument_type) ==
    [id |-> id, type |-> DOMAIN_NAME \o "/search", search_term |-> search_term,
     instrument_type |-> instrument_type]

\* connection.send_result(msg_id, result)
send_result(sent, msg_id, res) ==
    Append(sent, [id |-> msg_id, type |-> "result", success |-> TRUE, result |-> res])

\* connection.send_error(msg_id, code, message)
send_error(sent, msg_id, code, message) ==
    Append(sent, [id |-> msg_id, type |-> "result", success |-> FALSE,
                  error |-> [code |-> code, message |-> message]])

\* one element of the list comprehension
ResultItem(item) ==
    [id |-> item["id"], name |-> item["name"], currency |-> Get(item, "currency", Some(""))]

\* the handler sends no response at all when the search raises
websocket_search_instruments_resume_silent(sent, msg, search) ==
    IF search.exc = ""
    THEN send_result(sent, msg.id,
                     [i \in DOMAIN search.results |-> ResultItem(search.results[i])])
    ELSE sent

\* the handler up to the await: the arguments of pyavanza.search
websocket_search_instruments_call(msg) ==
    [search_term |-> msg.search_term,
     type |-> Get(INSTRUMENT_TYPES, msg.instrument_type, "Alla")]

\* the handler after the await: what it sends once the search returned or
\* raised; item["id"] or item["name"] of a result lacking the key raises
\* KeyError inside the try, which the broad except turns into the error
websocket_search_instruments_resume(sent, msg, search) ==
    IF /\ search.exc = ""
       /\ \A i \in DOMAIN search.results : {"id", "name"} \subseteq DOMAIN search.results[i]
    THEN send_result(sent, msg.id,
                     [i \in DOMAIN search.results |-> ResultItem(search.results[i])])
    ELSE send_error(sent, msg.id, "search_failed", "Failed to search for instruments")

\* the ids the connection has seen
LastMsgId == IF ws_tasks = <<>> THEN 0 ELSE ws_tasks[Len(ws_tasks)].msg.id

\* a message arrives: the handler starts and suspends at the search
WsReceive(id, search_term, instrument_type) ==
    /\ id > LastMsgId
    /\ id <= MaxMsgId
    /\ LET msg == WsMessage(id, search_term, instrument_type)
       IN ws_tasks' = Append(ws_tasks, [msg |-> msg, pc |-> "search",
                                        call |-> websocket_search_instruments_call(msg),
                                        search |-> NoSearch])
    /\ UNCHANGED <<CURRENCY_MAP, REVERSE_CURRENCY_MAP, calls, flow, result, effects, last,
                   ws_sent>>

\* the search of task k returns or raises: the handler resumes and finishes
WsSearchCompletes(k, search) ==
    /\ k \in DOMAIN ws_tasks
    /\ ws_tasks[k].pc = "search"
    /\ ws_sent' = websocket_search_instruments_resume(ws_sent, ws_tasks[k].msg, search)
    /\ ws_tasks' = [ws_tasks EXCEPT ![k].pc = "done", ![k].search = search]
    /\ UNCHANGED <<CURRENCY_MAP, REVERSE_CURRENCY_MAP, calls, flow, result, effects, last>>

InitConst ==
    /\ CURRENCY_MAP = DictFromItems(CURRENCY_MAP_ITEMS)
    /\ REVERSE_CURRENCY_MAP = ReverseCurrencyMapOf(DictFromItems(CURRENCY_MAP_ITEMS))
    /\ calls = <<>>

InitFlow ==
    /\ flow = FlowInit
    /\ result = NoResult
    /\ effects = <<>>
    /\ last = [step |-> "", input |-> None, env |-> NoEnv]

InitWs ==
    /\ ws_tasks = <<>>
    /\ ws_sent = <<>>

Init == InitConst /\ InitFlow /\ InitWs

\* callers of get_currency_config
Next ==
    \/ \E b \in Codes, q \in Codes : Call(b, Some(q))
    \/ \E b \in Codes : Call(b, None)

Spec == Init /\ [][Next]_vars

\* the host driving the wizard
NextFlow ==
    \/ Start
    \/ \E scan \in Scans : MenuMigrateYaml(scan)
    \/ MenuSearchInstrument
    \/ MenuManualEntry
    \/ \E d \in UserInputs, scan \in Scans : SubmitMigrateYaml(d, scan)
    \/ \E d \in UserInputs : SubmitConfirmMigration(d)
    \/ \E d \in UserInputs : SubmitModifyConfig(d)
    \/ \E d \in UserInputs, search \in SearchOutcomes : SubmitSearchInstrument(d, search)
    \/ \E d \in UserInputs, get \in GetOutcomes : SubmitManualEntry(d, get)
    \/ \E d \in UserInputs, get \in GetOutcomes : SubmitConfigure(d, get)

SpecFlow == Init /\ [][NextFlow]_vars

\* the websocket connection receiving messages and searches completing
NextWs ==
    \/ \E id \in 1..MaxMsgId, t \in InstrumentTypeArgs : WsReceive(id, "volvo", t)
    \/ \E k \in 1..MaxMsgId, search \in WsSearchOutcomes : WsSearchCompletes(k, search)

\* every awaited search returns or raises, and the event loop resumes its task
SpecWs ==
    /\ Init
    /\ [][NextWs]_vars
    /\ \A k \in 1..MaxMsgId : WF_vars(\E search \in WsSearchOutcomes : WsSearchCompletes(k, search))

(***************************************************************************)
(* config_flow.py: AvanzaStockOptionsFlow.  The host creates the flow for  *)
(* a config entry, calls async_step_init(), validates the submission       *)
(* against the form and calls async_step_init(user_input); the entry it    *)
(* gets back becomes the config entry's options.                           *)
(***************************************************************************)
ConfigEntry(data, options) == [data |-> data, options |-> options]

\* AvanzaStockOptionsFlow.__init__(config_entry)
OptionsFlowInit(config_entry) == [config_entry |-> config_entry]

\* the default of one field: options.get(k, data.get(k, builtin))
OptionDefault(config_entry, k, builtin) ==
    Get(config_entry.options, k, Get(config_entry.data, k, builtin))

\* the entry's data is asked first, its options only after
OptionsSchema_data_first(config_entry) ==
    LET default(k, builtin) ==
            Some(Get(config_entry.data, k, Get(config_entry.options, k, builtin)))
    IN [shares |-> Field(FALSE, default(CONF_SHARES, 0), "float", {}),
        purchase_price |-> Field(FALSE, default(CONF_PURCHASE_PRICE, 0), "float", {}),
        purchase_date |-> Field(FALSE, default(CONF_PURCHASE_DATE, Some("")), "string", {}),
        currency |-> Field(FALSE, default(CONF_CURRENCY, None), "string", {}),
        conversion_currency |->
            Field(FALSE, default(CONF_CONVERSION_CURRENCY, None), "string", {}),
        invert_conversion_currency |->
            Field(FALSE, default(CONF_INVERT_CONVERSION_CURRENCY, FALSE), "boolean", {}),
        monitored_conditions |->
            Field(FALSE, default(CONF_MONITORED_CONDITIONS, MONITORED_CONDITIONS),
                  "multi_select", Range(MONITORED_CONDITIONS)),
        show_trending_icon |->
            Field(FALSE, default(CONF_SHOW_TRENDING_ICON, DEFAULT_SHOW_TRENDING_ICON),
                  "boolean", {})]

\* the data schema of the init form
OptionsSchema(config_entry) ==
    LET default(k, builtin) == Some(OptionDefault(config_entry, k, builtin))
    IN [shares |-> Field(FALSE, default(CONF_SHARES, 0), "float", {}),
        purchase_price |-> Field(FALSE, default(CONF_PURCHASE_PRICE, 0), "float", {}),
        purchase_date |-> Field(FALSE, default(CONF_PURCHASE_DATE, Some("")), "string", {}),
        currency |-> Field(FALSE, default(CONF_CURRENCY, None), "string", {}),
        conversion_currency |->
            Field(FALSE, default(CONF_CONVERSION_CURRENCY, None), "string", {}),
        invert_conversion_currency |->
            Field(FALSE, default(CONF_INVERT_CONVERSION_CURRENCY, FALSE), "boolean", {}),
        monitored_conditions |->
            Field(FALSE, default(CONF_MONITORED_CONDITIONS, MONITORED_CONDITIONS),
                  "multi_select", Range(MONITORED_CONDITIONS)),
        show_trending_icon |->
            Field(FALSE, default(CONF_SHOW_TRENDING_ICON, DEFAULT_SHOW_TRENDING_ICON),
                  "boolean", {})]

\* AvanzaStockOptionsFlow.async_step_init(self, user_input=None)
async_step_init(f, user_input) ==
    IF user_input # None
    THEN Out(f, async_create_entry(Some(""), user_input[1]), <<EffCreateEntry(Some(""))>>)
    ELSE Out(f, async_show_form("init", Some(OptionsSchema(f.config_entry)), {}), <<>>)

\* the config entries options flows are opened for
ConfigEntries ==
    { ConfigEntry([id |-> Some("5361"), name |-> Some("Volvo B")], EmptyDict),
      ConfigEntry([id |-> Some("5361"), name |-> Some("Volvo B"), shares |-> 10,
                   purchase_price |-> 120, purchase_date |-> Some("2020-01-01"),
                   currency |-> Some("SEK"), conversion_currency |-> Some("EUR"),
                   invert_conversion_currency |-> TRUE,
                   monitored_conditions |-> <<"name">>, show_trending_icon |-> TRUE],
                  EmptyDict),
      ConfigEntry([id |-> Some("1983"), name |-> Some("Ericsson B"), shares |-> 10,
                   currency |-> Some("USD")],
                  [shares |-> 5, currency |-> Some("EUR"),
                   conversion_currency |-> Some("SEK")]),
      ConfigEntry([id |-> Some("1983")],
                  [purchase_date |-> Some("2021-05-05"), show_trending_icon |-> TRUE,
                   monitored_conditions |-> <<"lastPrice", "change">>]) }

\* the host opens the options flow of the entry: async_step_init(); after a
\* finished flow the entry carries the options that flow created
OpenOptions ==
    /\ result.type \in {"none", "create_entry"}
    /\ LET f == IF result.type = "create_entry"
                THEN OptionsFlowInit([flow.config_entry EXCEPT !.options = result.data[1]])
                ELSE flow
       IN Handled(async_step_init(f, None), "init", None, NoEnv)

\* the user submits the init form
SubmitOptions(d) ==
    /\ Submits("init", d)
    /\ Handled(async_step_init(flow, Some(Validated(result, d))), "init",
               Some(Validated(result, d)), NoEnv)

InitOptions ==
    /\ InitConst
    /\ InitWs
    /\ flow \in {OptionsFlowInit(e) : e \in ConfigEntries}
    /\ result = NoResult
    /\ effects = <<>>
    /\ last = [step |-> "", input |-> None, env |-> NoEnv]

\* what a user may send to the init form
OptionsInputs ==
    UserInputs \cup
    { [shares |-> 3, purchase_price |-> 95, purchase_date |-> Some("2022-02-02"),
       currency |-> Some("NOK"), conversion_currency |-> Some("SEK")],
      [currency |-> Some("USD"), conversion_currency |-> Some("SEK"),
       invert_conversion_currency |-> TRUE, show_trending_icon |-> TRUE],
      [currency |-> Some("EUR"), conversion_currency |-> Some("SEK"),
       monitored_conditions |-> <<"lastPrice">>],
      [purchase_date |-> Some("2023-03-03")],
      [show_trending_icon |-> FALSE, shares |-> 0] }

NextOptions ==
    \/ OpenOptions
    \/ \E d \in OptionsInputs : SubmitOptions(d)

SpecOptions == InitOptions /\ [][NextOptions]_vars

(***************************************************************************)
(* The steps called directly, as any caller holding the flow may call      *)
(* them (an import source, another step, a test): arguments are not        *)
(* filtered by a form's schema.                                            *)
(***************************************************************************)
\* instrument_info as the wizard's steps build it: an id, often a name,
\* sometimes further fields of a migrated record
InstrumentInfos ==
    { [id |-> Some("5361")],
      [id |-> Some("5361"), name |-> Some("Volvo B")],
      [id |-> Some("1983"), name |-> Some("Ericsson B"), shares |-> 7,
       currency |-> Some("SEK")] }

\* user_input of the configure step
ConfigureInputs ==
    { EmptyDict,
      [name |-> Some("Mine")],
      [name |-> Some("Mine"), id |-> Some("9999"), shares |-> 2, currency |-> Some("USD")],
      [shares |-> 2, purchase_price |-> 100, purchase_date |-> Some("2020-01-01"),
       conversion_currency |-> Some("EUR"), invert_conversion_currency |-> TRUE,
       monitored_conditions |-> <<"name", "lastPrice">>, show_trending_icon |-> TRUE] }

\* user_input of the search step when the user entered a search term
SearchInputs ==
    { [search |-> Some("volvo")],
      [search |-> Some("ericsson"), instrument_type |-> Some("stock")] }

\* records an import source may hand to async_step_import
ImportInputs ==
    { EmptyDict,
      [id |-> Some("5361")],
      [id |-> Some("5361"), name |-> Some("Volvo B"), shares |-> 10] }

\* the caller takes over what the handler left
Returned(o, step, instrument_info, input, env) ==
    /\ flow' = o.flow
    /\ result' = o.result
    /\ effects' = o.effects
    /\ last' = [step |-> step, input |-> input, env |-> env,
                instrument_info |-> instrument_info, before |-> flow]
    /\ UNCHANGED <<CURRENCY_MAP, REVERSE_CURRENCY_MAP, calls, wsvars>>

\* async_step_configure(instrument_info, user_input)
StepConfigure(instrument_info, user_input, get) ==
    /\ CONF_ID \in DOMAIN instrument_info
    /\ Returned(async_step_configure(flow, instrument_info, Some(user_input), get),
                "configure", Some(instrument_info), Some(user_input),
                Env(get, NoSearch, NoScan))

\* async_step_search_instrument(user_input)
StepSearchInstrument(user_input, search) ==
    /\ CONF_ID \notin DOMAIN user_input
    /\ Returned(async_step_search_instrument(flow, Some(user_input), search),
                "search_instrument", None, Some(user_input), Env("ok", search, NoScan))

\* async_step_import(user_input)
StepImport(user_input) ==
    /\ user_input \in ImportInputs
    /\ Returned(async_step_import(flow, Some(user_input)), "import", None,
                Some(user_input), NoEnv)

\* async_step_user(user_input), user_input None or a dict
StepUser(user_input) ==
    /\ user_input \in {None} \cup {Some(d) : d \in ImportInputs}
    /\ Returned(async_step_user(flow, user_input), "user", None, user_input, NoEnv)

NextSteps ==
    \/ \E instrument_info \in InstrumentInfos, user_input \in ConfigureInputs,
          get \in GetOutcomes : StepConfigure(instrument_info, user_input, get)
    \/ \E user_input \in SearchInputs, search \in SearchOutcomes :
          StepSearchInstrument(user_input, search)
    \/ \E user_input \in ImportInputs : StepImport(user_input)
    \/ \E user_input \in {None} \cup {Some(d) : d \in ImportInputs} : StepUser(user_input)

SpecSteps == Init /\ [][NextSteps]_vars

(***************************************************************************)
(* Claims about get_currency_config and the currency table (Spec)          *)
(***************************************************************************)
\* the argument the callee sees for quote_currency
EffectiveQuote(c) == IF c.quote = None THEN quote_currency_default ELSE c.quote[1]

\* the instrument ids the specification's table lists
ListedId(x) ==
    CASE x = "USD" -> 19000
      [] x = "EUR" -> 18998
      [] x = "NOK" -> 53822
      [] x = "DKK" -> 53824

\* C1: for every listed currency X, get_currency_config(X, "SEK") returns
\* (id_X, False) with id_USD = 19000, id_EUR = 18998, id_NOK = 53822,
\* id_DKK = 53824, and a call that omits the target returns the same.
C1_ListedToSek ==
    \A i \in DOMAIN calls :
        (calls[i].base \in Listed /\ calls[i].quote \in {Some("SEK"), None})
            => calls[i].ret = Return(Some(ListedId(calls[i].base)), FALSE)

C1_Witness ==
    \E i, j \in DOMAIN calls :
        /\ calls[i].base \in Listed
        /\ calls[j].base = calls[i].base
        /\ calls[i].quote = Some("SEK")
        /\ calls[j].quote = None
        /\ calls[i].ret = calls[j].ret
        /\ calls[i].ret.id # None

\* a raw rate n/d with the returned flag applied: r, or 1/r when inverted
ApplyInvert(invert, r) == IF invert THEN <<r[2], r[1]>> ELSE r

Rates == {<<1, 1>>, <<21, 2>>, <<2, 23>>}

\* C2: reversing a listed pair flips only the invert flag: SEK->X and X->SEK
\* return the same instrument id, invert is True for SEK->X and False for
\* X->SEK, so a raw rate r is used as r for X->SEK and as 1/r for SEK->X.
C2_ReverseFlipsInvert ==
    \A i \in DOMAIN calls :
        LET c == calls[i] IN
        /\ (c.base = "SEK" /\ EffectiveQuote(c) \in Listed) =>
              /\ c.ret.exc = ""
              /\ c.ret.id = Some(ListedId(EffectiveQuote(c)))
              /\ c.ret.invert = TRUE
              /\ \A r \in Rates : ApplyInvert(c.ret.invert, r) = <<r[2], r[1]>>
        /\ (c.base \in Listed /\ EffectiveQuote(c) = "SEK") =>
              /\ c.ret.exc = ""
              /\ c.ret.invert = FALSE
              /\ \A r \in Rates : ApplyInvert(c.ret.invert, r) = r
              /\ \A j \in DOMAIN calls :
                    (calls[j].base = "SEK" /\ EffectiveQuote(calls[j]) = c.base)
                        => /\ calls[j].ret.id = c.ret.id
                           /\ calls[j].ret.invert = ~c.ret.invert

C2_Witness ==
    \E i, j \in DOMAIN calls :
        /\ calls[i].base \in Listed
        /\ EffectiveQuote(calls[i]) = "SEK"
        /\ calls[j].base = "SEK"
        /\ EffectiveQuote(calls[j]) = calls[i].base
        /\ calls[i].ret.id = calls[j].ret.id
        /\ calls[j].ret.invert

\* C3: for every currency code C, listed or not, get_currency_config(C, C)
\* returns (None, False); no table entry of C is consulted first.
C3_Identity ==
    \A i \in DOMAIN calls :
        calls[i].base = EffectiveQuote(calls[i]) => calls[i].ret = Return(None, FALSE)

C3_Witness ==
    \E i, j \in DOMAIN calls :
        /\ calls[i].base \in Listed
        /\ calls[i].quote = Some(calls[i].base)
        /\ calls[i].ret = Return(None, FALSE)
        /\ calls[j].base = "SEK"
        /\ calls[j].quote = None

\* the keys of the table that hold a rate-pair record
IsRatePairKey(k) == DictHas(CURRENCY_MAP, k) /\ DictGet(CURRENCY_MAP, k) # None

\* C4: get_currency_config never raises, and whenever source # target, none
\* of the keys "source/target", "target/source" is in the table and source
\* is not the key of a rate-pair record, it returns (None, False).
C4_TotalFailOpen ==
    \A i \in DOMAIN calls :
        LET c == calls[i]
            q == EffectiveQuote(c)
        IN /\ c.ret.exc = ""
           /\ ( /\ c.base # q
                /\ ~DictHas(CURRENCY_MAP, FormatPair(c.base, q))
                /\ ~DictHas(CURRENCY_MAP, FormatPair(q, c.base))
                /\ ~IsRatePairKey(c.base) )
              => c.ret = Return(None, FALSE)

C4_Witness ==
    \E i, j \in DOMAIN calls :
        /\ calls[i].base = "JPY"
        /\ EffectiveQuote(calls[i]) = "SEK"
        /\ calls[i].ret = Return(None, FALSE)
        /\ calls[j].base = "SEK"
        /\ calls[j].quote = Some("JPY")
        /\ calls[j].ret = Return(None, FALSE)

\* C5: for a listed currency X and a target T that is neither X nor "SEK",
\* get_currency_config(X, T) returns (id_X, False) whatever T is.
C5_NonSekTargetIgnored ==
    \A i \in DOMAIN calls :
        LET c == calls[i] IN
        (c.base \in Listed /\ EffectiveQuote(c) \notin {c.base, "SEK"})
            => c.ret = Return(Some(ListedId(c.base)), FALSE)

C5_Witness ==
    \E i, j \in DOMAIN calls :
        /\ calls[i].base = "USD"
        /\ calls[i].quote = Some("EUR")
        /\ calls[i].ret.id = Some(19000)
        /\ calls[j].base = "USD"
        /\ calls[j].quote = Some("JPY")
        /\ calls[j].ret = calls[i].ret

\* The specification's resolution algorithm, step by step: each step either
\* matches, giving a resolution, or does not (the empty sequence); the first
\* step that matches wins.
ResolveSteps(source, target) ==
    LET table == CURRENCY_MAP
        key == FormatPair(source, target)
        rev == FormatPair(target, source)
        rec(k) == DictGet(table, k)[1]
    IN << \* 1. identity
          IF source = target THEN <<[instrumentId |-> None, invert |-> FALSE]>> ELSE <<>>,
          \* 2. direct composite key
          IF DictHas(table, key)
          THEN <<[instrumentId |-> Some(rec(key).id), invert |-> rec(key).invert]>> ELSE <<>>,
          \* 3. reversed composite key, stored flag flipped
          IF DictHas(table, rev)
          THEN <<[instrumentId |-> Some(rec(rev).id), invert |-> ~rec(rev).invert]>> ELSE <<>>,
          \* 4. the source code alone, when its entry is a rate-pair record
          IF IsRatePairKey(source)
          THEN <<[instrumentId |-> Some(rec(source).id), invert |-> rec(source).invert]>>
          ELSE <<>>,
          \* 5. fallback
          <<[instrumentId |-> None, invert |-> FALSE]>> >>

Resolve(source, target) ==
    LET steps == ResolveSteps(source, target)
        first == CHOOSE n \in DOMAIN steps :
                    steps[n] # <<>> /\ \A m \in 1..(n - 1) : steps[m] = <<>>
    IN steps[first][1]

RefinementCodes == {"SEK"} \cup Listed \cup {"JPY"}

\* C6: over SEK, the listed currencies and one unlisted code, the result of
\* get_currency_config equals the result of the specification's five steps
\* (identity, direct key, reversed key with the flag negated, single source
\* key holding a rate-pair record, fallback), first match wins.
C6_RefinesResolve ==
    \A i \in DOMAIN calls :
        LET c == calls[i]
            q == EffectiveQuote(c)
        IN (c.base \in RefinementCodes /\ q \in RefinementCodes)
            => /\ c.ret.exc = ""
               /\ c.ret.id = Resolve(c.base, q).instrumentId
               /\ c.ret.invert = Resolve(c.base, q).invert

C6_Witness ==
    \E i, j \in DOMAIN calls :
        /\ calls[i].base = "SEK"
        /\ calls[i].quote = Some("NOK")
        /\ calls[i].ret = Return(Some(53822), TRUE)
        /\ calls[j].base = "DKK"
        /\ calls[j].quote = Some("EUR")
        /\ calls[j].ret = Return(Some(53824), FALSE)

\* two calls with the same arguments returned the same result
SameArgsSameResult ==
    \A i, j \in DOMAIN calls :
        (calls[i].base = calls[j].base /\ EffectiveQuote(calls[i]) = EffectiveQuote(calls[j]))
            => calls[i].ret = calls[j].ret

ItemsKeyed(k) == Cardinality({i \in DOMAIN CURRENCY_MAP_ITEMS : CURRENCY_MAP_ITEMS[i][1] = k})

\* the instrument ids of the entries of currency x, plain and inverse
IdsOf(x) ==
    {DictGet(CURRENCY_MAP, k)[1].id :
        k \in {k \in {x, FormatPair("SEK", x)} : IsRatePairKey(k)}}

\* C8: each listed currency X has exactly one plain entry keyed X and exactly
\* one inverse entry keyed "SEK/X", both with the same instrument id and the
\* pair label "X/SEK", invert False on the plain and True on the inverse
\* entry, and no instrument id belongs to entries of two currencies.
C8_TableConsistent ==
    /\ \A x \in Listed :
          /\ ItemsKeyed(x) = 1
          /\ ItemsKeyed(FormatPair("SEK", x)) = 1
          /\ IsRatePairKey(x)
          /\ IsRatePairKey(FormatPair("SEK", x))
          /\ LET plain   == DictGet(CURRENCY_MAP, x)[1]
                 inverse == DictGet(CURRENCY_MAP, FormatPair("SEK", x))[1]
             IN /\ plain.id = inverse.id
                /\ plain.pair = FormatPair(x, "SEK")
                /\ inverse.pair = FormatPair(x, "SEK")
                /\ plain.invert = FALSE
                /\ inverse.invert = TRUE
    /\ \A x, y \in Listed : x # y => IdsOf(x) \cap IdsOf(y) = {}

C8_Witness ==
    /\ Len(CURRENCY_MAP) = Len(CURRENCY_MAP_ITEMS)
    /\ \A x \in Listed : Cardinality(IdsOf(x)) = 1
    /\ \E i \in DOMAIN calls : calls[i].base = "SEK" /\ calls[i].ret.id \in {Some(id) : id \in IdsOf("EUR")}

(***************************************************************************)
(* Claims about the wizard (SpecFlow)                                      *)
(***************************************************************************)
Called(e, name) == \E i \in DOMAIN e : e[i].call = name

\* In no state the host can drive the wizard to has async_create_entry been
\* called, by the step the host invoked or by a step nested in it.
WizardNeverCreatesEntry ==
    /\ result.type # "create_entry"
    /\ ~Called(effects, "async_create_entry")

\* C9: a user can add an instrument through the wizard: the host, starting at
\* the initial menu and calling the step each form names with the validated
\* submission as the single argument, reaches the configure form, and there
\* is a submission conforming to that form which, with the network call
\* succeeding, ends the flow with a created configuration entry.
C9_WizardCreatesEntry ==
    (result.type = "form" /\ result.step_id = "configure") =>
        \E d \in UserInputs :
            /\ Validates(result, d)
            /\ LET o == async_step_configure(flow, Validated(result, d), None, "ok")
               IN /\ o.result.type = "create_entry"
                  /\ Called(o.effects, "async_create_entry")

\* In no state the host can drive the wizard to has pyavanza.search been
\* called or _search_results been given an instrument.
WizardNeverSearches ==
    /\ ~Called(effects, "pyavanza.search")
    /\ flow._search_results = <<>>

\* C10: the search step is backed by the search client: when the
\* search_instrument form is shown there is a submission conforming to its
\* schema that makes the step call pyavanza.search, after which
\* _search_results holds the matches the service returned and the next form
\* offers exactly those instruments as the choices of its id field.
C10_SearchStepSearches ==
    (result.type = "form" /\ result.step_id = "search_instrument") =>
        \E d \in UserInputs, search \in SearchOutcomes :
            /\ Validates(result, d)
            /\ search.exc = ""
            /\ search.results # <<>>
            /\ LET o == async_step_search_instrument(flow, Some(Validated(result, d)), search)
               IN /\ Called(o.effects, "pyavanza.search")
                  /\ o.flow._search_results = search.results
                  /\ o.result.type = "form"
                  /\ o.result.data_schema[1].id.kind = "in"
                  /\ o.result.data_schema[1].id.choices = InstrumentChoices(search.results)

(***************************************************************************)
(* Claims about the websocket command (SpecWs)                             *)
(***************************************************************************)
\* the responses sent so far that carry message id i
ResponsesTo(i) == {n \in DOMAIN ws_sent : ws_sent[n].id = i}

\* the response the claim expects for a finished task
ExpectedResponse(t, m) ==
    IF t.search.exc = ""
    THEN /\ m.success
         /\ Len(m.result) = Len(t.search.results)
         /\ \A i \in DOMAIN m.result :
               /\ DOMAIN m.result[i] = {"id", "name", "currency"}
               /\ m.result[i].id = t.search.results[i].id
               /\ m.result[i].name = t.search.results[i].name
               /\ m.result[i].currency =
                     IF "currency" \in DOMAIN t.search.results[i]
                     THEN t.search.results[i].currency ELSE Some("")
    ELSE /\ ~m.success
         /\ m.error.code = "search_failed"

C11_Responses ==
    /\ \A n \in DOMAIN ws_sent : \E k \in DOMAIN ws_tasks :
          ws_tasks[k].pc = "done" /\ ws_tasks[k].msg.id = ws_sent[n].id
    /\ \A k \in DOMAIN ws_tasks :
          IF ws_tasks[k].pc = "done"
          THEN /\ Cardinality(ResponsesTo(ws_tasks[k].msg.id)) = 1
               /\ \A n \in ResponsesTo(ws_tasks[k].msg.id) :
                     ExpectedResponse(ws_tasks[k], ws_sent[n])
          ELSE ResponsesTo(ws_tasks[k].msg.id) = {}

\* C11: every avanza_stock/search message gets exactly one response with its
\* id: the result list (same length and order as the service's, each element
\* exactly id, name, currency, currency "" when omitted) when the search
\* returns, the error search_failed when it raises; never both, and a
\* message received is eventually answered.
C11_ExactlyOneResponse ==
    /\ []C11_Responses
    /\ \A i \in 1..MaxMsgId :
          (\E k \in DOMAIN ws_tasks : ws_tasks[k].msg.id = i) ~> (ResponsesTo(i) # {})

\* two searches completed out of arrival order, one returning an item
\* without currency and one raising
C11_Witness ==
    /\ Len(ws_tasks) = 2
    /\ ws_tasks[1].pc = "done" /\ ws_tasks[2].pc = "done"
    /\ ws_tasks[1].search.exc = "ClientError"
    /\ Len(ws_tasks[2].search.results) = 2
    /\ Len(ws_sent) = 2
    /\ ws_sent[1].id = ws_tasks[2].msg.id
    /\ ws_sent[1].result[2].currency = Some("")
    /\ ~ws_sent[2].success

(***************************************************************************)
(* Claims about the wizard's steps (SpecFlow, SpecSteps)                   *)
(***************************************************************************)
\* the async_create_entry calls among effects e
EntriesCreated(e) == {n \in DOMAIN e : e[n].call = "async_create_entry"}

\* C12: submitting action "confirm" in confirm_migration creates a
\* configuration entry for every record of _found_configs, leaves
\* _found_configs empty and returns the menu search_instrument, manual_entry.
C12_ConfirmImportsAll ==
    (/\ result.type = "form"
     /\ result.step_id = "confirm_migration"
     /\ flow._found_configs # <<>>) =>
        LET d == [action |-> Some("confirm")]
            o == async_step_confirm_migration(flow, Some(Validated(result, d)))
        IN /\ Validates(result, d)
           /\ Cardinality(EntriesCreated(o.effects)) = Len(flow._found_configs)
           /\ o.flow._found_configs = <<>>
           /\ o.result = async_show_menu("user", <<"search_instrument", "manual_entry">>)

\* what the code does instead: the records are dropped without any entry
ConfirmDropsRecords ==
    (/\ result.type = "menu"
     /\ last.step = "confirm_migration") =>
        /\ EntriesCreated(effects) = {}
        /\ flow._found_configs = <<>>

\* the session.get calls among effects e
Gets(e) == {n \in DOMAIN e : e[n].call = "session.get"}

\* C13: manual_entry issues exactly one GET for the entered id and moves on
\* to configure only when the service confirms the id; an id reported as not
\* found re-shows the form with invalid_stock_id, a connection failure
\* re-shows it with cannot_connect.
C13_ManualEntryValidatesId ==
    (result.type = "form" /\ result.step_id = "manual_entry") =>
        \A d \in UserInputs, get \in GetOutcomes :
            Validates(result, d) =>
                LET o == async_step_manual_entry(flow, Some(Validated(result, d)), get)
                    form(error) ==
                        async_show_form("manual_entry", Some(ManualEntrySchema),
                                        {<<"base", error>>})
                IN /\ Cardinality(Gets(o.effects)) = 1
                   /\ \A n \in Gets(o.effects) : o.effects[n].arg = d.id
                   /\ (o.result.step_id = "configure") <=> (get = "ok")
                   /\ get = "404" => o.result = form("invalid_stock_id")
                   /\ get = "ClientError" => o.result = form("cannot_connect")

\* what the code does: only an exception of the GET keeps the user on the
\* manual_entry form; any response, a 404 included, advances to configure
ManualEntryAdvancesOnAnyResponse ==
    (last.step = "manual_entry" /\ last.input # None) =>
        /\ Cardinality(Gets(effects)) = 1
        /\ (result.step_id = "configure") <=> ~Raises(last.env.get)
        /\ last.env.get = "ClientError" => result.errors = {<<"base", "cannot_connect">>}
        /\ last.env.get = "Exception" => result.errors = {<<"base", "invalid_stock_id">>}

\* the value the entry holds for field k when neither instrument_info nor
\* the submission names it
EntryDefault(k) ==
    CASE k = CONF_SHARES -> 0
      [] k = CONF_PURCHASE_PRICE -> 0
      [] k = CONF_PURCHASE_DATE -> Some("")
      [] k = CONF_CURRENCY -> None
      [] k = CONF_CONVERSION_CURRENCY -> None
      [] k = CONF_INVERT_CONVERSION_CURRENCY -> FALSE
      [] k = CONF_MONITORED_CONDITIONS -> MONITORED_CONDITIONS
      [] k = CONF_SHOW_TRENDING_ICON -> FALSE

EntryFields ==
    {CONF_SHARES, CONF_PURCHASE_PRICE, CONF_PURCHASE_DATE, CONF_CURRENCY,
     CONF_CONVERSION_CURRENCY, CONF_INVERT_CONVERSION_CURRENCY,
     CONF_MONITORED_CONDITIONS, CONF_SHOW_TRENDING_ICON}

\* C14: async_step_configure(instrument_info, user_input) with user_input
\* present creates an entry iff its single GET does not raise: ClientError
\* re-shows the form with cannot_connect, any other exception with unknown,
\* and no entry; on success exactly one entry with instrument_info's id,
\* title and name instrument_info's name when it carries one,
\* instrument_info's values overriding the submitted ones, and the defaults
\* for fields nobody gave.
C14_ConfigureCreatesIffGetOk ==
    (last.step = "configure" /\ last.instrument_info # None /\ last.input # None) =>
        LET info == last.instrument_info[1]
            ui   == last.input[1]
            get  == last.env.get
        IN /\ Cardinality(Gets(effects)) = 1
           /\ flow = last.before
           /\ IF Raises(get)
              THEN /\ EntriesCreated(effects) = {}
                   /\ result = ConfigureForm(info,
                         {<<"base", IF get = "ClientError" THEN "cannot_connect"
                                    ELSE "unknown">>})
              ELSE /\ result.type = "create_entry"
                   /\ Cardinality(EntriesCreated(effects)) = 1
                   /\ result.data[1][CONF_ID] = info[CONF_ID]
                   /\ CONF_NAME \in DOMAIN info =>
                         /\ result.title = info[CONF_NAME]
                         /\ result.data[1][CONF_NAME] = info[CONF_NAME]
                   /\ CONF_NAME \notin DOMAIN info =>
                         /\ result.title = result.data[1][CONF_NAME]
                         /\ result.title =
                               Get(ui, CONF_NAME, DefaultTitle(info[CONF_ID]))
                   /\ \A k \in EntryFields :
                         result.data[1][k] =
                            IF k \in DOMAIN info THEN info[k]
                            ELSE IF k \in DOMAIN ui THEN ui[k]
                            ELSE EntryDefault(k)

\* an entry created although the user submitted another name, id and shares
\* than instrument_info holds
C14_Witness ==
    /\ last.step = "configure"
    /\ last.instrument_info = Some([id |-> Some("1983"), name |-> Some("Ericsson B"),
                                    shares |-> 7, currency |-> Some("SEK")])
    /\ last.input # None
    /\ CONF_NAME \in DOMAIN last.input[1]
    /\ last.env.get = "404"
    /\ result.type = "create_entry"
    /\ result.title = Some("Ericsson B")
    /\ result.data[1][CONF_SHARES] = 7
    /\ result.data[1][CONF_ID] = Some("1983")

\* the pyavanza.search calls among effects e
Searches(e) == {n \in DOMAIN e : e[n].call = "pyavanza.search"}

\* what C15 says of the state a search submission leaves
SearchSubmissionHandled ==
    LET search == last.env.search
    IN /\ Cardinality(Searches(effects)) = 1
       /\ result.type = "form"
       /\ result.step_id = "search_instrument"
       /\ IF search.exc = ""
          THEN /\ flow._search_results = search.results
               /\ result.errors = {}
          ELSE /\ flow._search_results = last.before._search_results
               /\ result.errors =
                     {<<"base", IF search.exc = "ClientError" THEN "cannot_connect"
                                ELSE "unknown">>}

\* C15: in search_instrument a submission without a stock id makes exactly
\* one search call; when it returns, _search_results is replaced and the form
\* is re-shown without error; when it raises, the form is re-shown with
\* cannot_connect (aiohttp.ClientError) or unknown, _search_results is kept
\* and the exception does not propagate.
C15_SearchSubmission ==
    (last.step = "search_instrument" /\ last.input # None) => SearchSubmissionHandled

\* the same holds as long as every item the service ever returned carries a
\* currency; an item without one makes the form's construction raise KeyError
SearchSubmissionWithCurrencies ==
    (/\ last.step = "search_instrument"
     /\ last.input # None
     /\ \A i \in DOMAIN flow._search_results :
           CONF_CURRENCY \in DOMAIN flow._search_results[i]) => SearchSubmissionHandled

SearchFormRaisesWithoutCurrency ==
    (/\ last.step = "search_instrument"
     /\ last.input # None
     /\ \E i \in DOMAIN flow._search_results :
           CONF_CURRENCY \notin DOMAIN flow._search_results[i]) =>
        result = Raised("KeyError")

\* the last call ran async_step_modify_config: the host submitted the
\* modify_config form, or submitted "modify" to confirm_migration, which
\* sets _current_config_index and calls the step
ModifyConfigRan ==
    \/ last.step = "modify_config"
    \/ /\ last.step = "confirm_migration"
       /\ last.input # None
       /\ Get(last.input[1], "action", None) = Some("modify")
       /\ result.exc # "ValueError"

\* C16: whenever async_step_modify_config runs in a host-driven flow,
\* _current_config_index is a valid index into _found_configs, so the step
\* returns a form or a transition and never raises.
C16_ModifyIndexValid ==
    ModifyConfigRan =>
        /\ 0 <= flow._current_config_index
        /\ flow._current_config_index < Len(flow._found_configs)
        /\ result.type # "raise"

\* what the code does: the step raises IndexError exactly when the scan
\* found avanza_stock sensors of which none produced a record
ModifyRaisesOnEmptyConfigs ==
    ModifyConfigRan =>
        ((result = Raised("IndexError")) <=> (flow._found_configs = <<>>))

\* the scan as the claims describe it.  The files the scan reads to the end:
\* configuration.yaml when it exists, and the .yaml files of the includes
\* directory that parse
ReadFiles(scan) ==
    (IF scan.main_exists THEN {scan.main} ELSE {})
    \cup (IF scan.includes_exists
          THEN {scan.includes[i].config :
                   i \in {j \in DOMAIN scan.includes :
                             /\ scan.includes[j].ext = ".yaml"
                             /\ scan.includes[j].load = "ok"}}
          ELSE {})

\* the sensor entries with platform avanza_stock in those files
SensorsFound(scan) ==
    {s \in UNION {Range(c.sensors) : c \in {x \in ReadFiles(scan) : x.has_sensor}} :
        IsDictValue(s) /\ Get(s.dict, "platform", None) = Some("avanza_stock")}

\* an exception other than a YAML error of an includes file ends the scan
ScanRaises(scan) ==
    \/ scan.main_exists /\ scan.main_load # "ok"
    \/ /\ scan.includes_exists
       /\ \E i \in DOMAIN scan.includes :
             scan.includes[i].ext = ".yaml" /\ scan.includes[i].load = "Exception"

\* a found entry lists a stock mapping without "id"
ConstructionRaises(scan) ==
    \E s \in SensorsFound(scan) :
        /\ "stock" \in DOMAIN s.dict
        /\ "list" \in DOMAIN s.dict.stock
        /\ \E i \in DOMAIN s.dict.stock.list :
              /\ IsDictValue(s.dict.stock.list[i])
              /\ "id" \notin DOMAIN s.dict.stock.list[i].dict

\* the same directory without the includes files that do not parse
WithoutUnparsable(scan) ==
    [scan EXCEPT !.includes =
        SelectSeq(@, LAMBDA file : ~(file.ext = ".yaml" /\ file.load = "YAMLError"))]

\* C17: no exception escapes async_step_migrate_yaml: a YAML parse error in
\* an includes file skips only that file, any other exception of the scan,
\* of the record construction or of the nested confirm_migration call gives
\* the migrate_yaml form with errors base = migration_error.
C17_MigrateCatchesAll ==
    (last.step = "migrate_yaml") =>
        LET scan == last.env.scan
            skip == async_step_migrate_yaml(last.before, last.input, WithoutUnparsable(scan))
        IN /\ result.type # "raise"
           /\ (ScanRaises(scan) \/ ConstructionRaises(scan)) => result = MigrationErrorForm
           /\ result.errors # {} => result = MigrationErrorForm
           /\ result = skip.result
           /\ flow = skip.flow

\* an includes file failed to parse, the next one was read and its sensor
\* reached the confirm_migration form
C17_Witness ==
    /\ last.step = "migrate_yaml"
    /\ last.env.scan.includes_exists
    /\ \E i \in DOMAIN last.env.scan.includes :
          last.env.scan.includes[i].load = "YAMLError"
    /\ result.type = "form"
    /\ result.step_id = "confirm_migration"
    /\ Len(flow._found_configs) = 1

\* the ids of the records rs
RecordIds(rs) == {rs[i][CONF_ID] : i \in DOMAIN rs}

\* the stock ids a scan's sensors name
StockIds(scan) ==
    UNION {IF "stock" \notin DOMAIN s.dict THEN {}
           ELSE IF "int" \in DOMAIN s.dict.stock THEN {Some(Str(s.dict.stock.int))}
           ELSE IF "list" \in DOMAIN s.dict.stock
           THEN {Some(Str(s.dict.stock.list[i].dict.id)) :
                    i \in {j \in DOMAIN s.dict.stock.list :
                              /\ IsDictValue(s.dict.stock.list[j])
                              /\ "id" \in DOMAIN s.dict.stock.list[j].dict}}
           ELSE {} : s \in SensorsFound(scan)}

\* C18 as stated: when the scan completes without an exception the step
\* aborts with no_existing_config iff no avanza_stock sensor was found, and
\* otherwise resets _found_configs and proceeds to confirm_migration.
C18_Original ==
    (last.step = "migrate_yaml" /\ ~ScanRaises(last.env.scan)) =>
        IF SensorsFound(last.env.scan) = {}
        THEN result = async_abort("no_existing_config")
        ELSE /\ RecordIds(flow._found_configs) \subseteq StockIds(last.env.scan)
             /\ result.type = "form"
             /\ result.step_id = "confirm_migration"

\* C18 (amended): when the scan completes without an exception the step
\* aborts with no_existing_config iff no avanza_stock sensor was found;
\* otherwise it resets _found_configs and proceeds to confirm_migration,
\* unless building a record raises (a stock mapping without id), in which
\* case it shows the migrate_yaml form with migration_error.
C18_AbortIffNoneFound ==
    (last.step = "migrate_yaml" /\ ~ScanRaises(last.env.scan)) =>
        IF SensorsFound(last.env.scan) = {}
        THEN /\ result = async_abort("no_existing_config")
             /\ flow = last.before
        ELSE /\ result.type # "abort"
             /\ RecordIds(flow._found_configs) \subseteq StockIds(last.env.scan)
             /\ IF ConstructionRaises(last.env.scan)
                THEN result = MigrationErrorForm
                ELSE /\ result.type = "form"
                     /\ result.step_id = "confirm_migration"
                     /\ RecordIds(flow._found_configs) = StockIds(last.env.scan)

\* a second scan, after one that left a record behind, found other sensors:
\* the earlier record is gone
C18_Witness ==
    /\ last.step = "migrate_yaml"
    /\ last.before._found_configs # <<>>
    /\ ~ScanRaises(last.env.scan)
    /\ RecordIds(last.before._found_configs) \cap StockIds(last.env.scan) = {}
    /\ result.type = "form"
    /\ result.step_id = "confirm_migration"
    /\ flow._found_configs # <<>>

\* C19: a submission to modify_config changes only the record at
\* _current_config_index: the other records, the number of records and the
\* selected record's id are unchanged, the submitted fields overwrite the
\* same-named fields of the selected record, and the flow returns to the
\* confirm_migration form.
C19_ModifyChangesSelectedOnly ==
    (last.step = "modify_config" /\ last.input # None) =>
        LET before == last.before._found_configs
            after  == flow._found_configs
            at     == last.before._current_config_index + 1
            ui     == last.input[1]
        IN /\ Len(after) = Len(before)
           /\ at \in DOMAIN before
           /\ \A i \in DOMAIN before : i # at => after[i] = before[i]
           /\ after[at][CONF_ID] = before[at][CONF_ID]
           /\ CONF_ID \notin DOMAIN ui
           /\ \A k \in DOMAIN ui : after[at][k] = ui[k]
           /\ \A k \in DOMAIN before[at] \ DOMAIN ui : after[at][k] = before[at][k]
           /\ DOMAIN after[at] = DOMAIN before[at] \cup DOMAIN ui
           /\ flow._current_config_index = last.before._current_config_index
           /\ flow._search_results = last.before._search_results
           /\ result.type = "form"
           /\ result.step_id = "confirm_migration"

\* the second of three records was renamed and the first was left alone
C19_Witness ==
    /\ last.step = "modify_config"
    /\ last.input # None
    /\ last.before._current_config_index = 1
    /\ Len(flow._found_configs) = 3
    /\ flow._found_configs[2][CONF_NAME] = Some("Renamed")
    /\ last.before._found_configs[2][CONF_NAME] # Some("Renamed")
    /\ flow._found_configs[1][CONF_NAME] # Some("Renamed")
    /\ result.step_id = "confirm_migration"

\* C20: async_step_import returns, for every input record, exactly what
\* async_step_user returns, the menu migrate_yaml, search_instrument,
\* manual_entry; it creates no entry and changes no flow state, and
\* async_step_user ignores its input.
C20_ImportShowsMenu ==
    (last.step \in {"import", "user"}) =>
        /\ result = async_show_menu("user",
                        <<"migrate_yaml", "search_instrument", "manual_entry">>)
        /\ result = async_step_user(last.before, None).result
        /\ effects = <<>>
        /\ flow = last.before

\* a full record was imported into a flow that had searched before, and only
\* the menu came back
C20_Witness ==
    /\ last.step = "import"
    /\ last.input = Some([id |-> Some("5361"), name |-> Some("Volvo B"), shares |-> 10])
    /\ last.before._search_results # <<>>
    /\ result.type = "menu"
    /\ flow._search_results = last.before._search_results

(***************************************************************************)
(* Claims about the options flow (SpecOptions)                             *)
(***************************************************************************)
\* C21: in the options flow async_step_init with a submission creates an
\* options entry whose data is exactly the submitted mapping; without one it
\* shows the init form in which each field's default is the value in the
\* entry's options if present, otherwise the value in the entry's data,
\* otherwise the built-in default (shares 0, purchase price 0, purchase date
\* "", invert False, all monitored conditions, trending icon False).
C21_OptionsInit ==
    (last.step = "init") =>
        IF last.input # None
        THEN /\ result.type = "create_entry"
             /\ result.data = last.input
             /\ result.title = Some("")
             /\ flow = last.before
        ELSE LET entry  == flow.config_entry
                 schema == result.data_schema[1]
             IN /\ result.type = "form"
                /\ result.step_id = "init"
                /\ DOMAIN schema = EntryFields
                /\ \A k \in EntryFields :
                      schema[k].default =
                         Some(IF k \in DOMAIN entry.options THEN entry.options[k]
                              ELSE IF k \in DOMAIN entry.data THEN entry.data[k]
                              ELSE EntryDefault(k))

\* the form of an entry whose options and data disagree on shares and
\* currency shows the options' values, and the data's where no option is set
C21_Witness ==
    /\ last.step = "init"
    /\ last.input = None
    /\ flow.config_entry.data[CONF_ID] = Some("1983")
    /\ CONF_SHARES \in DOMAIN flow.config_entry.data
    /\ flow.config_entry.options = [shares |-> 5, currency |-> Some("EUR"),
                                    conversion_currency |-> Some("SEK")]
    /\ result.data_schema[1].shares.default = Some(5)
    /\ result.data_schema[1].currency.default = Some(Some("EUR"))
    /\ result.data_schema[1].purchase_price.default = Some(0)

(***************************************************************************)
(* Claims about the flow's attributes (SpecFlow)                           *)
(***************************************************************************)
\* C22: in every host-driven sequence of steps no handler reads
\* _found_configs, _current_config_index or _search_results before the
\* attribute was assigned, although the effective constructor assigns only
\* _search_results: confirm_migration and modify_config are entered only
\* after migrate_yaml assigned _found_configs, and modify_config only after
\* confirm_migration assigned _current_config_index.
C22_AttributesAssignedBeforeRead ==
    /\ result.exc # "AttributeError"
    /\ "_search_results" \in flow.attrs
    /\ last.step \in {"confirm_migration", "modify_config"} =>
          "_found_configs" \in last.before.attrs
    /\ last.step = "modify_config" =>
          "_current_config_index" \in last.before.attrs
    /\ ModifyConfigRan =>
          {"_found_configs", "_current_config_index"} \subseteq flow.attrs

\* modify_config ran on a flow whose constructor had assigned neither
\* _found_configs nor _current_config_index
C22_Witness ==
    /\ FlowInit.attrs = {"_search_results"}
    /\ last.step = "confirm_migration"
    /\ ModifyConfigRan
    /\ "_current_config_index" \notin last.before.attrs
    /\ result.type = "form"
    /\ result.step_id = "modify_config"

(***************************************************************************)
(* Claims about the reverse lookup map (Spec)                              *)
(***************************************************************************)
\* C23: the reverse map round-trips with the table: for every listed
\* currency X, REVERSE_CURRENCY_MAP[CURRENCY_MAP[X]["id"]] == X, independent
\* of the insertion order of the table, and REVERSE_CURRENCY_MAP[None] ==
\* "SEK".
C23_ReverseRoundTrip ==
    /\ \A x \in Listed :
          /\ DictHas(REVERSE_CURRENCY_MAP, Some(DictGet(CURRENCY_MAP, x)[1].id))
          /\ DictGet(REVERSE_CURRENCY_MAP, Some(DictGet(CURRENCY_MAP, x)[1].id)) = x
    /\ DictGet(REVERSE_CURRENCY_MAP, None) = "SEK"

\* what the comprehension leaves: the plain and the inverse entry of X share
\* the id, the inverse entry is inserted later and its key overwrites X
ReverseMapsToInverseKey ==
    /\ \A x \in Listed :
          DictGet(REVERSE_CURRENCY_MAP, Some(DictGet(CURRENCY_MAP, x)[1].id)) =
             FormatPair("SEK", x)
    /\ DictGet(REVERSE_CURRENCY_MAP, None) = "SEK"

====
